---- MODULE Spec2Model ----
(***************************************************************************)
(* Payroll period processing and technopark tax calculations of the        *)
(* backend services (payroll_service.py, tax_service.py).                  *)
(*                                                                         *)
(* Numbers.  The services compute in Python floats.  Here an amount of     *)
(* money is an integer number of hundredths of the unit the inputs are     *)
(* given in, and a rate is an integer number of percent, so that           *)
(* amount * rate is Pct(amount, rate).  The inputs are drawn as whole      *)
(* units (multiples of 100), for which every product below is exact.       *)
(* Python's None is the value None.                                        *)
(***************************************************************************)
EXTENDS Integers, Sequences, FiniteSets, TLC

VARIABLES
    employees,      \* table employees: id -> row
    periods,        \* table payroll_periods: sequence of rows, id = index
    entries,        \* table payroll_entries: sequence of rows, id = index
    bracket_setting,\* SystemSetting income_tax_brackets_<year>: year -> table
    req,            \* the in-flight process requests, one database session each
    processed,      \* ids of the periods a process call has committed to
    staff,          \* table employees as the roster validation reads it
    ratio_result,   \* outcome of the last validate_support_personnel_ratio
    vc_params,      \* parameter table handed to check_venture_capital_obligation
    vc_base,        \* its exemption_base argument
    vc_result,      \* its return value
    tax_brackets,   \* bracket table handed to calculate_progressive_tax
    tax_base,       \* its base_amount argument
    tax_result,     \* its return value
    tax_settings,   \* SystemSetting tax_parameters_<year>: year -> stored table
    tax_params,     \* TaxService._tax_params of the instance in use: <<>> is None
    params_call,    \* the last parameter store call and its outcome
    invoices,       \* table invoices with their items: sequence of rows
    corp_result,    \* result of the last calculate_corporate_tax_exemption
    rate_employee,  \* Employee handed to PayrollService.get_exemption_rates
    rate_user,      \* User handed to TaxService._get_income_tax_exemption_rate
    rate_params,    \* its params argument
    rate_result,    \* outcome of the last rate resolution
    users,          \* table users as the incentive calculation reads it
    summary_call,   \* the last incentive or summary call and its outcome
    services,       \* the TaxService instances alive: id -> _tax_params
    conc            \* the concurrent /tax-parameters requests in flight

vars == <<employees, periods, entries, bracket_setting, req, processed,
          staff, ratio_result, vc_params, vc_base, vc_result,
          tax_brackets, tax_base, tax_result,
          tax_settings, tax_params, params_call, invoices, corp_result,
          rate_employee, rate_user, rate_params, rate_result,
          users, summary_call, services, conc>>

payroll_vars == <<employees, periods, entries, bracket_setting, req, processed>>
ratio_vars == <<staff, ratio_result>>
vc_vars == <<vc_params, vc_base, vc_result>>
tax_vars == <<tax_brackets, tax_base, tax_result>>
params_vars == <<tax_settings, tax_params, params_call>>
corp_vars == <<invoices, corp_result>>
rates_vars == <<rate_employee, rate_user, rate_params, rate_result>>
summary_vars == <<users, summary_call>>
conc_vars == <<services, conc>>
calc_vars == <<params_vars, corp_vars, rates_vars, summary_vars, conc_vars>>

None == -1

\* amount * rate, the rate in percent
Pct(amount, rate) == (amount \div 100) * rate + ((amount % 100) * rate) \div 100

Min(a, b) == IF a <= b THEN a ELSE b

Max(a, b) == IF a >= b THEN a ELSE b

\* all sequences over S of length lo..hi
SeqsOf(S, lo, hi) == UNION {[1..n -> S] : n \in lo..hi}

(***************************************************************************)
(* The states in which a part of the system is not in use.                 *)
(***************************************************************************)
PayrollUnused ==
    /\ employees = <<>>
    /\ periods = <<>>
    /\ entries = <<>>
    /\ bracket_setting = <<>>
    /\ req = <<>>
    /\ processed = {}

RatioUnused ==
    /\ staff = <<>>
    /\ ratio_result = <<>>

VcUnused ==
    /\ vc_params = <<>>
    /\ vc_base = 0
    /\ vc_result = <<>>

TaxUnused ==
    /\ tax_brackets = <<>>
    /\ tax_base = 0
    /\ tax_result = <<>>

ParamsUnused ==
    /\ tax_settings = <<>>
    /\ tax_params = <<>>
    /\ params_call = <<>>

CorpUnused ==
    /\ invoices = <<>>
    /\ corp_result = <<>>

RatesUnused ==
    /\ rate_employee = <<>>
    /\ rate_user = <<>>
    /\ rate_params = <<>>
    /\ rate_result = <<>>

SummaryUnused ==
    /\ users = <<>>
    /\ summary_call = <<>>

ConcUnused ==
    /\ services = <<>>
    /\ conc = <<>>

CalcUnused ==
    ParamsUnused /\ CorpUnused /\ RatesUnused /\ SummaryUnused /\ ConcUnused

(***************************************************************************)
(* TaxService.check_venture_capital_obligation                             *)
(* Amounts of this calculation: 100 = 1,000,000 TL.                        *)
(***************************************************************************)
MaxVcAmount == 6

VcAmounts == {100 * n : n \in 0..MaxVcAmount}

VcRates == {0, 3, 50, 100}

VcKeys == {"venture_capital_limit", "venture_capital_rate",
           "venture_capital_max_amount"}

\* the dicts a caller can pass: any of the three keys may be missing
VcParamTables ==
    {[k \in K |-> full[k]] :
        full \in [venture_capital_limit : VcAmounts,
                  venture_capital_rate : VcRates,
                  venture_capital_max_amount : VcAmounts],
        K \in SUBSET VcKeys}

DEFAULT_VENTURE_CAPITAL_LIMIT == 500

DEFAULT_VENTURE_CAPITAL_RATE == 3

DEFAULT_VENTURE_CAPITAL_MAX_AMOUNT == 10000

\* dict.get(key, default)
DictGet(params, key, default) ==
    IF key \in DOMAIN params THEN params[key] ELSE default

check_venture_capital_obligationCapOnExcess(exemption_base, params) ==
    LET limit == DictGet(params, "venture_capital_limit",
                         DEFAULT_VENTURE_CAPITAL_LIMIT)
        rate == DictGet(params, "venture_capital_rate",
                        DEFAULT_VENTURE_CAPITAL_RATE)
        max_amount == DictGet(params, "venture_capital_max_amount",
                              DEFAULT_VENTURE_CAPITAL_MAX_AMOUNT)
    IN  IF exemption_base <= limit
        THEN 0
        ELSE Pct(Min(exemption_base - limit, max_amount), rate)

check_venture_capital_obligationNoGuard(exemption_base, params) ==
    LET limit == DictGet(params, "venture_capital_limit",
                         DEFAULT_VENTURE_CAPITAL_LIMIT)
        rate == DictGet(params, "venture_capital_rate",
                        DEFAULT_VENTURE_CAPITAL_RATE)
        max_amount == DictGet(params, "venture_capital_max_amount",
                              DEFAULT_VENTURE_CAPITAL_MAX_AMOUNT)
    IN  Pct(Min(exemption_base - limit, max_amount - limit), rate)

check_venture_capital_obligation(exemption_base, params) ==
    LET limit == DictGet(params, "venture_capital_limit",
                         DEFAULT_VENTURE_CAPITAL_LIMIT)
        rate == DictGet(params, "venture_capital_rate",
                        DEFAULT_VENTURE_CAPITAL_RATE)
        max_amount == DictGet(params, "venture_capital_max_amount",
                              DEFAULT_VENTURE_CAPITAL_MAX_AMOUNT)
    IN  IF exemption_base <= limit
        THEN 0
        ELSE LET excess_amount == Min(exemption_base - limit, max_amount - limit)
             IN  Pct(excess_amount, rate)

(***************************************************************************)
(* PayrollService.calculate_progressive_tax                                *)
(***************************************************************************)
MaxBrackets == 3

MaxLimit == 3

MaxBase == 5

BracketLimits == {100 * n : n \in 0..MaxLimit} \cup {None}

BracketRates == {0, 10, 25}

BracketTables ==
    SeqsOf([limit : BracketLimits, rate : BracketRates], 1, MaxBrackets)

TaxBases == {100 * n : n \in (0 - 1)..MaxBase}

RECURSIVE ProgressiveTaxLoop(_, _, _, _, _)
\* the for loop over brackets[i..]; returns total_tax
ProgressiveTaxLoop(brackets, i, remaining, total_tax, previous_limit) ==
    IF i > Len(brackets)
    THEN total_tax
    ELSE LET limit == brackets[i].limit
             rate == brackets[i].rate
             taxable == IF limit = None
                        THEN remaining
                        ELSE Min(remaining, Max(0, limit - previous_limit))
             total == total_tax + Pct(taxable, rate)
             rest == remaining - taxable
         IN  IF rest <= 0
             THEN total
             ELSE ProgressiveTaxLoop(brackets, i + 1, rest, total,
                      IF limit # None THEN limit ELSE previous_limit)

RECURSIVE ProgressiveTaxLoopNoAdvance(_, _, _, _, _)
ProgressiveTaxLoopNoAdvance(brackets, i, remaining, total_tax, previous_limit) ==
    IF i > Len(brackets)
    THEN total_tax
    ELSE LET limit == brackets[i].limit
             rate == brackets[i].rate
             taxable == IF limit = None
                        THEN remaining
                        ELSE Min(remaining, Max(0, limit - previous_limit))
             total == total_tax + Pct(taxable, rate)
             rest == remaining - taxable
         IN  IF rest <= 0
             THEN total
             ELSE ProgressiveTaxLoopNoAdvance(brackets, i + 1, rest, total,
                                              previous_limit)

RECURSIVE ProgressiveTaxLoopLastSlice(_, _, _, _, _)
ProgressiveTaxLoopLastSlice(brackets, i, remaining, total_tax, previous_limit) ==
    IF i > Len(brackets)
    THEN total_tax
    ELSE LET limit == brackets[i].limit
             rate == brackets[i].rate
             taxable == IF limit = None
                        THEN remaining
                        ELSE Min(remaining, Max(0, limit - previous_limit))
             total == Pct(taxable, rate)
             rest == remaining - taxable
         IN  IF rest <= 0
             THEN total
             ELSE ProgressiveTaxLoopLastSlice(brackets, i + 1, rest, total,
                      IF limit # None THEN limit ELSE previous_limit)

calculate_progressive_taxLastSlice(base_amount, brackets) ==
    IF base_amount <= 0
    THEN 0
    ELSE ProgressiveTaxLoopLastSlice(brackets, 1, base_amount, 0, 0)

calculate_progressive_taxNoAdvance(base_amount, brackets) ==
    IF base_amount <= 0
    THEN 0
    ELSE ProgressiveTaxLoopNoAdvance(brackets, 1, base_amount, 0, 0)

calculate_progressive_tax(base_amount, brackets) ==
    IF base_amount <= 0
    THEN 0
    ELSE ProgressiveTaxLoop(brackets, 1, base_amount, 0, 0)

(***************************************************************************)
(* Employees and PayrollService.validate_support_personnel_ratio           *)
(***************************************************************************)
TenantIds == {1, 2}

\* current_user.tenant_id: a tenant, or None for a user without one
CallerTenants == TenantIds \cup {None}

\* models.PersonnelType as the database holds it: the three members of the
\* class, and SOFTWARE_PERSONNEL, which migration 7b6f1c2a3e5a adds to the
\* enum type and get_exemption_rates and validate_support_personnel_ratio
\* test for
PersonnelTypes == {"RD_PERSONNEL", "SOFTWARE_PERSONNEL", "SUPPORT_PERSONNEL", "INTERN"}

\* the columns of an employees row that the roster validation reads
StaffClass(personnel_type, is_active, tenant_id) ==
    [personnel_type |-> personnel_type, is_active |-> is_active, tenant_id |-> tenant_id]

RECURSIVE CountRows(_, _)
\* number of rows of the table (rows: class -> number of rows) whose class is
\* in the set classes
CountRows(rows, classes) ==
    IF classes = {}
    THEN 0
    ELSE LET c == CHOOSE x \in classes : TRUE
         IN  rows[c] + CountRows(rows, classes \ {c})

\* query(Employee).filter(is_active == True)[.filter(tenant_id == tenant_id)]
ActiveRosterQuery(rows, tenant_id) ==
    {c \in DOMAIN rows :
        /\ c.is_active
        /\ tenant_id # None => c.tenant_id = tenant_id}

validate_support_personnel_ratioNoTenth(rows, tenant_id) ==
    LET employees_q == ActiveRosterQuery(rows, tenant_id)
        rd_count == CountRows(rows, {c \in employees_q :
                        c.personnel_type \in {"RD_PERSONNEL", "SOFTWARE_PERSONNEL"}})
        support_count == CountRows(rows, {c \in employees_q :
                        c.personnel_type = "SUPPORT_PERSONNEL"})
    IN  IF rd_count = 0 /\ support_count > 0
        THEN "400"
        ELSE IF rd_count > 0 /\ support_count > rd_count
        THEN "400"
        ELSE "ok"

validate_support_personnel_ratioRdOnly(rows, tenant_id) ==
    LET employees_q == ActiveRosterQuery(rows, tenant_id)
        rd_count == CountRows(rows, {c \in employees_q :
                        c.personnel_type \in {"RD_PERSONNEL"}})
        support_count == CountRows(rows, {c \in employees_q :
                        c.personnel_type = "SUPPORT_PERSONNEL"})
    IN  IF rd_count = 0 /\ support_count > 0
        THEN "400"
        ELSE IF rd_count > 0 /\ 10 * support_count > rd_count
        THEN "400"
        ELSE "ok"

\* "ok" when the method returns, "400" when it raises HTTPException(400).
\* support_count > rd_count * 0.10 is decided on integers: 10 * support_count > rd_count
validate_support_personnel_ratio(rows, tenant_id) ==
    LET employees_q == ActiveRosterQuery(rows, tenant_id)
        rd_count == CountRows(rows, {c \in employees_q :
                        c.personnel_type \in {"RD_PERSONNEL", "SOFTWARE_PERSONNEL"}})
        support_count == CountRows(rows, {c \in employees_q :
                        c.personnel_type = "SUPPORT_PERSONNEL"})
    IN  IF rd_count = 0 /\ support_count > 0
        THEN "400"
        ELSE IF rd_count > 0 /\ 10 * support_count > rd_count
        THEN "400"
        ELSE "ok"

(***************************************************************************)
(* SpecRatio: the employees table under create_employee and                *)
(* update_employee, and the roster validation run on it.  The table is     *)
(* kept as the number of rows per class; the payloads are those of         *)
(* StaffClasses, and each class holds at most StaffCap rows.               *)
(***************************************************************************)
MaxRd == 10

MaxSoftware == 2

MaxSupport == 2

MaxBystanders == 1

StaffClasses ==
    {StaffClass("RD_PERSONNEL", TRUE, 1), StaffClass("SOFTWARE_PERSONNEL", TRUE, 1),
     StaffClass("SUPPORT_PERSONNEL", TRUE, 1), StaffClass("INTERN", TRUE, 1),
     StaffClass("RD_PERSONNEL", FALSE, 1), StaffClass("SUPPORT_PERSONNEL", FALSE, 1),
     StaffClass("RD_PERSONNEL", TRUE, 2), StaffClass("SUPPORT_PERSONNEL", TRUE, 2)}

StaffCap(c) ==
    IF c = StaffClass("RD_PERSONNEL", TRUE, 1) THEN MaxRd
    ELSE IF c = StaffClass("SOFTWARE_PERSONNEL", TRUE, 1) THEN MaxSoftware
    ELSE IF c = StaffClass("SUPPORT_PERSONNEL", TRUE, 1) THEN MaxSupport
    ELSE MaxBystanders

InitRatio ==
    /\ staff = [c \in StaffClasses |-> 0]
    /\ ratio_result = <<>>
    /\ PayrollUnused /\ VcUnused /\ TaxUnused /\ CalcUnused

\* PayrollService.create_employee: one more row, of the caller's tenant
create_employee ==
    \E c \in StaffClasses :
        /\ staff[c] < StaffCap(c)
        /\ staff' = [staff EXCEPT ![c] = @ + 1]
        /\ ratio_result' = <<>>
        /\ UNCHANGED <<payroll_vars, vc_vars, tax_vars, calc_vars>>

\* PayrollService.update_employee by a caller who may (the row's tenant, or a
\* caller without tenant): the row gets the payload's personnel_type and
\* is_active
update_employee ==
    \E c \in StaffClasses, personnel_type \in PersonnelTypes, is_active \in BOOLEAN :
        LET d == StaffClass(personnel_type, is_active, c.tenant_id)
        IN  /\ staff[c] > 0
            /\ d \in StaffClasses \ {c}
            /\ staff[d] < StaffCap(d)
            /\ staff' = [staff EXCEPT ![c] = @ - 1, ![d] = @ + 1]
            /\ ratio_result' = <<>>
            /\ UNCHANGED <<payroll_vars, vc_vars, tax_vars, calc_vars>>

\* a caller runs the roster validation; ratio_result = <<tenant_id, outcome>>
ValidateRoster ==
    \E tenant_id \in CallerTenants :
        /\ ratio_result' = <<tenant_id, validate_support_personnel_ratio(staff, tenant_id)>>
        /\ UNCHANGED <<staff, payroll_vars, vc_vars, tax_vars, calc_vars>>

NextRatio == create_employee \/ update_employee \/ ValidateRoster

SpecRatio == InitRatio /\ [][NextRatio]_vars

\* headcounts of the claim, as seen by the caller of the last validation
Headcount(personnel_types) ==
    CountRows(staff, {c \in StaffClasses :
        /\ c.is_active
        /\ c.personnel_type \in personnel_types
        /\ ratio_result[1] \in {None, c.tenant_id}})

EligibleHeadcount == Headcount({"RD_PERSONNEL"}) + Headcount({"SOFTWARE_PERSONNEL"})

SupportHeadcount == Headcount({"SUPPORT_PERSONNEL"})

Frac(amount, num, den) == (amount \div den) * num + ((amount % den) * num) \div den

EducationLevels == {"HIGH_SCHOOL", "ASSOCIATE", "BACHELOR", "MASTER", "PHD"}

GraduationFields == {"ENGINEERING", "BASIC_SCIENCES", "OTHER"}

EmployeeRow(tenant_id, personnel_type, is_active, education_level, graduation_field, gross_salary) ==
    [tenant_id |-> tenant_id, personnel_type |-> personnel_type,
     is_active |-> is_active, education_level |-> education_level,
     graduation_field |-> graduation_field, gross_salary |-> gross_salary]

\* the fallback table of get_income_tax_brackets
DEFAULT_INCOME_TAX_BRACKETS ==
    << [limit |-> 11000000, rate |-> 15],
       [limit |-> 23000000, rate |-> 20],
       [limit |-> 58000000, rate |-> 27],
       [limit |-> 300000000, rate |-> 35],
       [limit |-> None, rate |-> 40] >>

\* bracket_setting: year -> the table stored under income_tax_brackets_<year>
get_income_tax_brackets(year) ==
    IF year \in DOMAIN bracket_setting
    THEN bracket_setting[year]
    ELSE DEFAULT_INCOME_TAX_BRACKETS

get_exemption_ratesInternOnly(employee) ==
    IF employee.personnel_type \notin {"RD_PERSONNEL", "SOFTWARE_PERSONNEL",
                                       "SUPPORT_PERSONNEL"}
    THEN [income_tax |-> 0, stamp_tax |-> 0, sgk_employer |-> 0]
    ELSE [income_tax |->
              IF employee.education_level = "PHD" THEN 95
              ELSE IF employee.education_level = "MASTER"
                      /\ employee.graduation_field = "BASIC_SCIENCES" THEN 95
              ELSE IF employee.education_level = "MASTER" THEN 90
              ELSE IF employee.education_level = "BACHELOR"
                      /\ employee.graduation_field = "BASIC_SCIENCES" THEN 90
              ELSE IF employee.education_level = "BACHELOR" THEN 80
              ELSE 0,
          stamp_tax |-> 100,
          sgk_employer |-> 50]

\* rates in percent
get_exemption_rates(employee) ==
    IF employee.personnel_type \notin {"RD_PERSONNEL", "SOFTWARE_PERSONNEL"}
    THEN [income_tax |-> 0, stamp_tax |-> 0, sgk_employer |-> 0]
    ELSE [income_tax |->
              IF employee.education_level = "PHD" THEN 95
              ELSE IF employee.education_level = "MASTER"
                      /\ employee.graduation_field = "BASIC_SCIENCES" THEN 95
              ELSE IF employee.education_level = "MASTER" THEN 90
              ELSE IF employee.education_level = "BACHELOR"
                      /\ employee.graduation_field = "BASIC_SCIENCES" THEN 90
              ELSE IF employee.education_level = "BACHELOR" THEN 80
              ELSE 0,
          stamp_tax |-> 100,
          sgk_employer |-> 50]

calculate_entryGrossOfIncentives(employee, entry_input, brackets) ==
    LET rates == get_exemption_rates(employee)
        gross_salary == employee.gross_salary
        sgk_worker == Pct(gross_salary, 14)
        unemployment_worker == Pct(gross_salary, 1)
        sgk_employer == Frac(gross_salary, 205, 1000)
        income_tax_base == Max(0, gross_salary - (sgk_worker + unemployment_worker))
        calculated_income_tax == calculate_progressive_tax(income_tax_base, brackets)
        stamp_tax == Frac(gross_salary, 759, 100000)
        net_salary == gross_salary - (sgk_worker + unemployment_worker
                                      + calculated_income_tax + stamp_tax)
    IN  [calculated_gross |-> gross_salary,
         sgk_base |-> gross_salary,
         income_tax_base |-> income_tax_base,
         net_salary |-> Max(0, net_salary),
         income_tax_exemption_amount |-> Pct(calculated_income_tax, rates.income_tax),
         stamp_tax_exemption_amount |-> Pct(stamp_tax, rates.stamp_tax),
         sgk_employer_incentive_amount |-> Pct(sgk_employer, rates.sgk_employer)]

calculate_entry(employee, entry_input, brackets) ==
    LET rates == get_exemption_rates(employee)
        gross_salary == employee.gross_salary
        sgk_worker == Pct(gross_salary, 14)
        unemployment_worker == Pct(gross_salary, 1)
        sgk_employer == Frac(gross_salary, 205, 1000)
        sgk_incentive == Pct(sgk_employer, rates.sgk_employer)
        income_tax_base == Max(0, gross_salary - (sgk_worker + unemployment_worker))
        calculated_income_tax == calculate_progressive_tax(income_tax_base, brackets)
        income_tax_incentive == Pct(calculated_income_tax, rates.income_tax)
        stamp_tax == Frac(gross_salary, 759, 100000)
        stamp_tax_incentive == Pct(stamp_tax, rates.stamp_tax)
        net_salary == gross_salary - (sgk_worker
                                      + unemployment_worker
                                      + (calculated_income_tax - income_tax_incentive)
                                      + (stamp_tax - stamp_tax_incentive))
    IN  [calculated_gross |-> gross_salary,
         sgk_base |-> gross_salary,
         income_tax_base |-> income_tax_base,
         net_salary |-> Max(0, net_salary),
         income_tax_exemption_amount |-> income_tax_incentive,
         stamp_tax_exemption_amount |-> stamp_tax_incentive,
         sgk_employer_incentive_amount |-> sgk_incentive]

(***************************************************************************)
(* Payroll: periods and process_payroll_period.  A request runs in its     *)
(* own database session (get_db; sessionmaker(autocommit=False,            *)
(* autoflush=False)): what it adds or changes stays in the session         *)
(* (req[r].pending) until commit, a query sees the committed tables only,  *)
(* and closing the session without commit discards what is pending.        *)
(***************************************************************************)
MaxPeriods == 2

MaxInputs == 2

MaxEntries == 2

Requests == {1, 2}

Years == {2026}

Months == {1}

PeriodIds == 1..MaxPeriods

\* the employee ids an input names; the rosters leave id 3 unused
InputEmployeeIds == 1..3

DayInputs ==
    {[worked_days |-> 22, remote_days |-> 0, weekend_days |-> 8, absent_days |-> 0],
     [worked_days |-> 10, remote_days |-> 5, weekend_days |-> 8, absent_days |-> 12]}

\* PayrollEntryInput
EntryInputs ==
    {[employee_id |-> e, worked_days |-> d.worked_days, remote_days |-> d.remote_days,
      weekend_days |-> d.weekend_days, absent_days |-> d.absent_days] :
        e \in InputEmployeeIds, d \in DayInputs}

\* the employees tables the payroll runs start from
Rosters ==
    { <<EmployeeRow(1, "RD_PERSONNEL", TRUE, "PHD", "BASIC_SCIENCES", 10000000),
        EmployeeRow(1, "SOFTWARE_PERSONNEL", TRUE, "BACHELOR", "ENGINEERING", 30000000)>>,
      <<EmployeeRow(1, "RD_PERSONNEL", TRUE, "MASTER", "OTHER", 10000000),
        EmployeeRow(1, "SUPPORT_PERSONNEL", TRUE, "BACHELOR", "OTHER", 5000000),
        EmployeeRow(2, "RD_PERSONNEL", TRUE, "MASTER", "BASIC_SCIENCES", 20000000)>>,
      <<EmployeeRow(1, "RD_PERSONNEL", TRUE, "PHD", "ENGINEERING", 10000000),
        EmployeeRow(1, "SUPPORT_PERSONNEL", FALSE, "HIGH_SCHOOL", "OTHER", 0)>> }

\* the income_tax_brackets_<year> settings the payroll runs start from
BracketSettings ==
    { <<>>,
      [y \in Years |-> << [limit |-> 5000000, rate |-> 10], [limit |-> None, rate |-> 30] >>] }

\* the employees table in the form the roster validation reads
EmployeeTable ==
    LET class(i) == StaffClass(employees[i].personnel_type, employees[i].is_active,
                               employees[i].tenant_id)
    IN  [c \in {class(i) : i \in DOMAIN employees} |->
            Cardinality({i \in DOMAIN employees : class(i) = c})]

IdleRequest ==
    [pc |-> "idle", tenant_id |-> None, period_id |-> 0, brackets |-> <<>>,
     n |-> 0, pending |-> <<>>, error |-> "", overtaken |-> FALSE]

InitPayroll ==
    /\ employees \in Rosters
    /\ periods = <<>>
    /\ entries = <<>>
    /\ bracket_setting \in BracketSettings
    /\ req = [r \in Requests |-> IdleRequest]
    /\ processed = {}

Init == InitPayroll /\ RatioUnused /\ VcUnused /\ TaxUnused /\ CalcUnused

create_periodOverwrite(tenant_id, year, month, is_locked) ==
    LET existing == {i \in DOMAIN periods :
                        /\ periods[i].tenant_id = tenant_id
                        /\ periods[i].year = year
                        /\ periods[i].month = month}
    IN  IF existing # {}
        THEN [i \in DOMAIN periods |->
                 IF i \in existing
                 THEN [periods[i] EXCEPT !.is_locked = is_locked]
                 ELSE periods[i]]
        ELSE Append(periods, [tenant_id |-> tenant_id, year |-> year,
                              month |-> month, is_locked |-> is_locked])

\* the payroll_periods table after create_period(payload, tenant_id)
create_period(tenant_id, year, month, is_locked) ==
    LET existing == {i \in DOMAIN periods :
                        /\ periods[i].tenant_id = tenant_id
                        /\ periods[i].year = year
                        /\ periods[i].month = month}
    IN  IF existing # {}
        THEN periods
        ELSE Append(periods, [tenant_id |-> tenant_id, year |-> year,
                              month |-> month, is_locked |-> is_locked])

\* the tenants whose users create periods
PeriodCreators == TenantIds

CreatePeriod ==
    \E tenant_id \in PeriodCreators, year \in Years, month \in Months,
       is_locked \in BOOLEAN :
        /\ periods' = create_period(tenant_id, year, month, is_locked)
        /\ Len(periods') <= MaxPeriods
        /\ UNCHANGED <<employees, entries, bracket_setting, req, processed,
                       ratio_vars, vc_vars, tax_vars, calc_vars>>

PeriodCheckNoLock(period_id, tenant_id) ==
    IF period_id \notin DOMAIN periods
    THEN "404 period"
    ELSE IF tenant_id # None /\ periods[period_id].tenant_id # tenant_id
    THEN "403 period"
    ELSE ""

\* process_payroll_period up to the lock check: the HTTPException raised, or ""
PeriodCheck(period_id, tenant_id) ==
    IF period_id \notin DOMAIN periods
    THEN "404 period"
    ELSE IF tenant_id # None /\ periods[period_id].tenant_id # tenant_id
    THEN "403 period"
    ELSE IF periods[period_id].is_locked
    THEN "400 locked"
    ELSE ""

EmployeeCheckNoTenant(employee_id, tenant_id) ==
    IF employee_id \notin DOMAIN employees THEN "404 employee" ELSE ""

\* the employee lookup of one loop iteration: the HTTPException raised, or ""
EmployeeCheck(employee_id, tenant_id) ==
    IF employee_id \notin DOMAIN employees
    THEN "404 employee"
    ELSE IF tenant_id # None /\ employees[employee_id].tenant_id # tenant_id
    THEN "403 employee"
    ELSE ""

\* the assignments of one loop iteration to the entry object
AssignEntry(entry, entry_input, calculations) ==
    [entry EXCEPT
        !.worked_days = entry_input.worked_days,
        !.remote_days = entry_input.remote_days,
        !.weekend_days = entry_input.weekend_days,
        !.absent_days = entry_input.absent_days,
        !.calculated_gross = calculations.calculated_gross,
        !.sgk_base = calculations.sgk_base,
        !.income_tax_base = calculations.income_tax_base,
        !.net_salary = calculations.net_salary,
        !.income_tax_exemption_amount = calculations.income_tax_exemption_amount,
        !.stamp_tax_exemption_amount = calculations.stamp_tax_exemption_amount,
        !.sgk_employer_incentive_amount = calculations.sgk_employer_incentive_amount]

\* models.PayrollEntry(tenant_id=..., employee_id=..., payroll_period_id=...)
NewEntry(tenant_id, employee_id, period_id) ==
    [tenant_id |-> tenant_id, employee_id |-> employee_id,
     payroll_period_id |-> period_id,
     worked_days |-> 0, remote_days |-> 0, weekend_days |-> 0, absent_days |-> 0,
     calculated_gross |-> 0, sgk_base |-> 0, income_tax_base |-> 0, net_salary |-> 0,
     income_tax_exemption_amount |-> 0, stamp_tax_exemption_amount |-> 0,
     sgk_employer_incentive_amount |-> 0]

\* the rows the entry query of the loop matches in the committed table
MatchingEntries(employee_id, period_id) ==
    {i \in DOMAIN entries :
        /\ entries[i].employee_id = employee_id
        /\ entries[i].payroll_period_id = period_id}

\* number of objects of the session that commit will insert
PendingInserts(pending) == Cardinality({k \in DOMAIN pending : pending[k].id = 0})

\* number of rows the table has once every session in flight has committed
EntriesInSight ==
    LET RECURSIVE Inserts(_)
        Inserts(rs) == IF rs = {}
                       THEN 0
                       ELSE LET r == CHOOSE x \in rs : TRUE
                            IN  PendingInserts(req[r].pending) + Inserts(rs \ {r})
    IN  Len(entries) + Inserts({r \in DOMAIN req : req[r].pc = "loop"})

RECURSIVE Flush(_, _, _)
\* Session.commit: the pending objects from the k-th on are written in order:
\* an INSERT for a new object, for a loaded one an UPDATE of the columns
\* whose value differs from the loaded value
Flush(stored, pending, k) ==
    IF k > Len(pending)
    THEN stored
    ELSE LET item == pending[k]
             written ==
                 IF item.id = 0
                 THEN Append(stored, item.row)
                 ELSE [stored EXCEPT ![item.id] =
                          [f \in DOMAIN item.row |->
                              IF item.row[f] # item.loaded[f]
                              THEN item.row[f]
                              ELSE stored[item.id][f]]]
         IN  Flush(written, pending, k + 1)

CloseSessionFlushing(stored, pending) == Flush(stored, pending, 1)

\* get_db's finally: db.close() of a session that did not commit; the table
\* afterwards
CloseSession(stored, pending) == stored

ProcessBegin(r, callers) ==
    \E tenant_id \in callers, period_id \in PeriodIds :
        LET error == PeriodCheck(period_id, tenant_id)
        IN  /\ req[r].pc = "idle"
            /\ req' = [req EXCEPT ![r] =
                          [IdleRequest EXCEPT
                              !.pc = IF error = "" THEN "validate" ELSE "rejected",
                              !.tenant_id = tenant_id,
                              !.period_id = period_id,
                              !.error = error]]
            /\ UNCHANGED <<employees, periods, entries, bracket_setting, processed,
                           ratio_vars, vc_vars, tax_vars, calc_vars>>

\* validate_support_personnel_ratio and get_income_tax_brackets
ProcessValidate(r) ==
    /\ req[r].pc = "validate"
    /\ IF validate_support_personnel_ratio(EmployeeTable, req[r].tenant_id) = "400"
       THEN req' = [req EXCEPT ![r].pc = "rejected", ![r].error = "400 ratio"]
       ELSE req' = [req EXCEPT
                       ![r].pc = "loop",
                       ![r].brackets = get_income_tax_brackets(periods[req[r].period_id].year)]
    /\ UNCHANGED <<employees, periods, entries, bracket_setting, processed,
                   ratio_vars, vc_vars, tax_vars, calc_vars>>

\* one iteration of the loop over the input entries
ProcessEntry(r, inputs) ==
    \E entry_input \in inputs :
        LET me == req[r]
            error == EmployeeCheck(entry_input.employee_id, me.tenant_id)
            employee == employees[entry_input.employee_id]
            calculations == calculate_entry(employee, entry_input, me.brackets)
            matching == MatchingEntries(entry_input.employee_id, me.period_id)
        IN  /\ me.pc = "loop"
            /\ me.n < MaxInputs
            /\ IF error # ""
               THEN req' = [req EXCEPT ![r].pc = "rejected", ![r].error = error]
               ELSE IF matching = {}
               THEN /\ EntriesInSight < MaxEntries
                    /\ LET entry == AssignEntry(
                                  NewEntry(me.tenant_id, entry_input.employee_id, me.period_id),
                                  entry_input, calculations)
                       IN  req' = [req EXCEPT
                                      ![r].n = @ + 1,
                                      ![r].pending = Append(@, [id |-> 0, loaded |-> entry,
                                                                row |-> entry])]
               ELSE \E i \in matching :
                        LET held == {k \in DOMAIN me.pending : me.pending[k].id = i}
                        IN  IF held # {}
                            THEN LET k == CHOOSE x \in held : TRUE
                                 IN  req' = [req EXCEPT
                                        ![r].n = @ + 1,
                                        ![r].pending[k].row =
                                            AssignEntry(@, entry_input, calculations)]
                            ELSE req' = [req EXCEPT
                                        ![r].n = @ + 1,
                                        ![r].pending = Append(@,
                                            [id |-> i, loaded |-> entries[i],
                                             row |-> AssignEntry(entries[i], entry_input,
                                                                 calculations)])]
            /\ UNCHANGED <<employees, periods, entries, bracket_setting, processed,
                           ratio_vars, vc_vars, tax_vars, calc_vars>>

\* the end of the input list: self.db.commit()
ProcessCommit(r) ==
    /\ req[r].pc = "loop"
    /\ entries' = Flush(entries, req[r].pending, 1)
    /\ processed' = processed \cup {req[r].period_id}
    /\ req' = [q \in Requests |->
                  IF q = r
                  THEN [req[r] EXCEPT !.pc = "done", !.pending = <<>>, !.n = 0]
                  ELSE IF /\ req[q].pc \in {"validate", "loop"}
                          /\ req[q].period_id = req[r].period_id
                  THEN [req[q] EXCEPT !.overtaken = TRUE]
                  ELSE req[q]]
    /\ UNCHANGED <<employees, periods, bracket_setting, ratio_vars, vc_vars, tax_vars, calc_vars>>

\* the response is sent, or the exception propagates, and get_db closes the session
ProcessClose(r) ==
    /\ req[r].pc \in {"done", "rejected"}
    /\ entries' = CloseSession(entries, req[r].pending)
    /\ req' = [req EXCEPT ![r] = IdleRequest]
    /\ UNCHANGED <<employees, periods, bracket_setting, processed,
                   ratio_vars, vc_vars, tax_vars, calc_vars>>

\* a process request of a caller of callers with input entries of inputs
Process(r, callers, inputs) ==
    \/ ProcessBegin(r, callers)
    \/ ProcessValidate(r)
    \/ ProcessEntry(r, inputs)
    \/ ProcessCommit(r)
    \/ ProcessClose(r)

\* Spec: the requests are served one at a time
Next == CreatePeriod \/ Process(1, CallerTenants, EntryInputs)

Spec == Init /\ [][Next]_vars

\* SpecConcurrent: the requests of Requests are served at the same time, their
\* steps interleaved
ConcurrentCallers == {1}

ConcurrentInputs == {e \in EntryInputs : e.employee_id = 1}

NextConcurrent ==
    CreatePeriod \/ \E r \in Requests : Process(r, ConcurrentCallers, ConcurrentInputs)

SpecConcurrent == Init /\ [][NextConcurrent]_vars

(***************************************************************************)
(* Properties of process_payroll_period and create_period                  *)
(***************************************************************************)
IsLocked(p) == p \in DOMAIN periods /\ periods[p].is_locked

\* the stored entries of period p, with their ids
EntriesOf(p) == {<<i, entries[i]>> : i \in {j \in DOMAIN entries : entries[j].payroll_period_id = p}}

\* the active employees a caller of tenant_id answers for, by personnel type
ActiveHeadcount(tenant_id, personnel_types) ==
    Cardinality({i \in DOMAIN employees :
        /\ employees[i].is_active
        /\ employees[i].personnel_type \in personnel_types
        /\ tenant_id \in {None, employees[i].tenant_id}})

\* support headcount above 10% of the R&D-eligible headcount
RosterViolatesRatio(tenant_id) ==
    10 * ActiveHeadcount(tenant_id, {"SUPPORT_PERSONNEL"})
        > ActiveHeadcount(tenant_id, {"RD_PERSONNEL", "SOFTWARE_PERSONNEL"})

\* C1: process on a period whose lock flag is set is rejected with an error,
\* whatever the input, and the stored entries are the same before and after
\* the call.
C1_LockedPeriodRejected ==
    [][\A r \in Requests :
          (/\ req'[r].pc # req[r].pc
           /\ IsLocked(req[r].period_id) \/ IsLocked(req'[r].period_id))
          => /\ req'[r].pc \in {"rejected", "idle"}
             /\ req'[r].pc = "rejected" => req'[r].error \in {"400 locked", "403 period"}
             /\ entries' = entries
             /\ periods' = periods]_vars

C1_Witness ==
    \E r \in Requests :
        /\ req[r].pc = "rejected"
        /\ req[r].error = "400 locked"
        /\ IsLocked(req[r].period_id)
        /\ entries # <<>>

C4_OneEntryPerEmployeePeriod ==
    \A i, j \in DOMAIN entries :
        (/\ entries[i].employee_id = entries[j].employee_id
         /\ entries[i].payroll_period_id = entries[j].payroll_period_id)
        => i = j

\* C5: a process call that fails at an input entry (employee missing or of
\* another tenant) persists none of the entries before it: the stored entries
\* are those from before the call.
C5_FailedCallPersistsNothing ==
    [][\A r \in Requests :
          /\ (req[r].pc = "loop" /\ req'[r].pc = "rejected") => entries' = entries
          /\ req[r].pc = "rejected"
             => /\ req'[r].pc \in {"rejected", "idle"}
                /\ entries' = entries]_vars

C5_Witness ==
    \E r \in Requests :
        /\ req[r].pc = "rejected"
        /\ req[r].error \in {"404 employee", "403 employee"}
        /\ entries # <<>>
        /\ \E k \in DOMAIN req[r].pending :
              \/ req[r].pending[k].id = 0
              \/ req[r].pending[k].row # req[r].pending[k].loaded

\* C6: of two concurrent process calls against the same period at most one
\* commits: no call commits after another call has committed to the same
\* period while it was in flight.
C6_AtMostOneCommits ==
    \A r \in Requests : ~(req[r].pc = "done" /\ req[r].overtaken)

InitVC ==
    /\ vc_params \in VcParamTables
    /\ vc_base = 0
    /\ vc_result = <<>>
    /\ PayrollUnused /\ RatioUnused /\ TaxUnused /\ CalcUnused

CheckVentureCapital ==
    \E exemption_base \in VcAmounts :
        /\ vc_base' = exemption_base
        /\ vc_result' = <<check_venture_capital_obligation(exemption_base, vc_params)>>
        /\ UNCHANGED <<vc_params, payroll_vars, ratio_vars, tax_vars, calc_vars>>

NextVC == CheckVentureCapital

SpecVC == InitVC /\ [][NextVC]_vars

\* the threshold, rate and cap the dict stands for
VcThreshold == DictGet(vc_params, "venture_capital_limit", DEFAULT_VENTURE_CAPITAL_LIMIT)

VcRate == DictGet(vc_params, "venture_capital_rate", DEFAULT_VENTURE_CAPITAL_RATE)

VcCap == DictGet(vc_params, "venture_capital_max_amount", DEFAULT_VENTURE_CAPITAL_MAX_AMOUNT)

\* C8: for every exemption_base <= threshold, the threshold itself included,
\* the venture-capital obligation is 0.
C8_ZeroUpToThreshold ==
    (vc_result # <<>> /\ vc_base <= VcThreshold) => vc_result[1] = 0

C8_Witness ==
    /\ vc_result = <<0>>
    /\ vc_base = VcThreshold
    /\ VcRate > 0
    /\ VcCap > VcThreshold
    /\ vc_base > 0

\* C9: for every exemption_base > threshold the obligation is
\* (min(exemption_base, cap) - threshold) * rate: (base - threshold) * rate
\* up to the cap and the constant (cap - threshold) * rate above it.
C9_ObligationAboveThreshold ==
    (vc_result # <<>> /\ vc_base > VcThreshold) =>
        /\ vc_result[1] = Pct(Min(vc_base, VcCap) - VcThreshold, VcRate)
        /\ vc_base <= VcCap => vc_result[1] = Pct(vc_base - VcThreshold, VcRate)
        /\ vc_base > VcCap => vc_result[1] = Pct(VcCap - VcThreshold, VcRate)

C9_Witness ==
    /\ vc_result # <<>>
    /\ VcThreshold > 0
    /\ VcCap > VcThreshold
    /\ vc_base > VcCap + 100
    /\ VcRate > 0
    /\ vc_result[1] = Pct(VcCap - VcThreshold, VcRate)
    /\ vc_result[1] > 0

(***************************************************************************)
(* SpecTax: calls of calculate_progressive_tax(base_amount, brackets) on   *)
(* every bracket table and base of the bounded sets, ordered or not.       *)
(***************************************************************************)
InitTax ==
    /\ tax_brackets \in BracketTables
    /\ tax_base = 0
    /\ tax_result = <<>>
    /\ PayrollUnused /\ RatioUnused /\ VcUnused /\ CalcUnused

CalculateProgressiveTax ==
    \E base_amount \in TaxBases :
        /\ tax_base' = base_amount
        /\ tax_result' = <<calculate_progressive_tax(base_amount, tax_brackets)>>
        /\ UNCHANGED <<tax_brackets, payroll_vars, ratio_vars, vc_vars, calc_vars>>

NextTax == CalculateProgressiveTax

SpecTax == InitTax /\ [][NextTax]_vars

\* a table ordered by increasing limit whose last bracket is unbounded
OrderedTable(brackets) ==
    /\ brackets[Len(brackets)].limit = None
    /\ \A i \in 1..(Len(brackets) - 1) :
        /\ brackets[i].limit # None
        /\ i > 1 => brackets[i - 1].limit <= brackets[i].limit

\* limit_(i) of the claim: limit_0 = 0
LowerLimit(brackets, i) == IF i = 1 THEN 0 ELSE brackets[i - 1].limit

\* the part of base that falls in bracket i: max(0, min(base, limit_i) - limit_(i-1))
SliceOf(base, brackets, i) ==
    LET upper == IF brackets[i].limit = None
                 THEN base
                 ELSE Min(base, brackets[i].limit)
    IN  Max(0, upper - LowerLimit(brackets, i))

RECURSIVE SliceSum(_, _, _)
\* sum over the brackets 1..i of rate_i * slice_i
SliceSum(base, brackets, i) ==
    IF i = 0
    THEN 0
    ELSE SliceSum(base, brackets, i - 1)
         + Pct(SliceOf(base, brackets, i), brackets[i].rate)

\* C10: on a table ordered by increasing limit with an unbounded last
\* bracket the tax is 0 for base <= 0 and otherwise the sum over the brackets
\* of rate_i * max(0, min(base, limit_i) - limit_(i-1)); across a bracket
\* boundary it is the tax up to the boundary plus the next bracket's rate on
\* the part above the boundary.
C10_TaxIsSumOfSlices ==
    (tax_result # <<>> /\ OrderedTable(tax_brackets)) =>
        /\ tax_base <= 0 => tax_result[1] = 0
        /\ tax_base > 0 =>
              tax_result[1] = SliceSum(tax_base, tax_brackets, Len(tax_brackets))
        /\ \A i \in 1..(Len(tax_brackets) - 1) :
              (/\ tax_base > tax_brackets[i].limit
               /\ (i + 1 = Len(tax_brackets) \/ tax_base <= tax_brackets[i + 1].limit))
              => tax_result[1] =
                    calculate_progressive_tax(tax_brackets[i].limit, tax_brackets)
                    + Pct(tax_base - tax_brackets[i].limit, tax_brackets[i + 1].rate)

C10_Witness ==
    /\ tax_result # <<>>
    /\ Len(tax_brackets) = 3
    /\ OrderedTable(tax_brackets)
    /\ 0 < tax_brackets[1].limit
    /\ tax_brackets[1].limit < tax_brackets[2].limit
    /\ tax_brackets[1].rate > 0
    /\ tax_brackets[2].rate > tax_brackets[1].rate
    /\ tax_brackets[3].rate > 0
    /\ tax_base > tax_brackets[2].limit
    /\ tax_result[1] > 0

\* C11: on an ordered bracket table the progressive tax is non-decreasing in
\* the base: every base b1 up to the base of the call yields a tax no larger
\* than the call's.
C11_TaxMonotoneInBase ==
    (tax_result # <<>> /\ OrderedTable(tax_brackets)) =>
        \A b1 \in TaxBases :
            b1 <= tax_base
            => calculate_progressive_tax(b1, tax_brackets) <= tax_result[1]

C11_Witness ==
    /\ tax_result # <<>>
    /\ Len(tax_brackets) >= 2
    /\ OrderedTable(tax_brackets)
    /\ tax_brackets[1].rate > tax_brackets[2].rate
    /\ tax_base > tax_brackets[1].limit
    /\ \E b1 \in TaxBases :
          /\ 0 < b1
          /\ b1 <= tax_brackets[1].limit
          /\ 0 < calculate_progressive_tax(b1, tax_brackets)
          /\ calculate_progressive_tax(b1, tax_brackets) <= tax_result[1]

(***************************************************************************)
(* TaxService parameter store: get_tax_parameters, update_tax_parameters   *)
(* and the /tax-parameters endpoints.  A table is a record; its amounts    *)
(* are in the units of the venture capital calculation (100 = 1,000,000    *)
(* TL), the daily exemptions in hundredths of a lira, its rates in         *)
(* percent.  json.dumps and json.loads take such a table to itself.        *)
(***************************************************************************)
ParamYears == {2025, 2026}

IncomeTaxExemptionKeys ==
    {"phd_basic_sciences", "masters_basic_sciences", "phd_other",
     "masters_other", "bachelors"}

\* the dict get_tax_parameters returns when nothing is stored for the year
DefaultTaxParameters(year) ==
    [year |-> year,
     venture_capital_limit |-> 500,
     venture_capital_rate |-> 3,
     venture_capital_max_amount |-> 10000,
     remote_work_rate_informatics |-> 100,
     remote_work_rate_other |-> 75,
     income_tax_exemptions |->
        [phd_basic_sciences |-> 95,
         masters_basic_sciences |-> 90,
         phd_other |-> 90,
         masters_other |-> 80,
         bachelors |-> 80],
     corporate_tax_rate |-> 25,
     vat_rate |-> 20,
     daily_food_exemption |-> 30000,
     daily_transport_exemption |-> 15800,
     sgk_employer_share_discount |-> 50,
     stamp_tax_exemption_rate |-> 100]

\* the row tax_parameters_2026 that migration 003 seeds
SeededTaxSettings == 2026 :> DefaultTaxParameters(2026)

\* get_tax_parameters(year) on an instance whose _tax_params is cache:
\* the dict returned and _tax_params afterwards
get_tax_parameters(cache, settings, year) ==
    IF cache # <<>>
    THEN [result |-> cache[1], cache |-> cache]
    ELSE IF year \in DOMAIN settings
    THEN [result |-> settings[year], cache |-> <<settings[year]>>]
    ELSE [result |-> DefaultTaxParameters(year), cache |-> cache]

\* dict.update
DictUpdate(d, e) ==
    [k \in DOMAIN d \cup DOMAIN e |-> IF k \in DOMAIN e THEN e[k] ELSE d[k]]

\* the loop of update_tax_parameters over update_dict.items(); a null for
\* income_tax_exemptions is given as the empty dict, which merges to the same
MergeUpdates(current_params, update_dict) ==
    [field \in DOMAIN current_params \cup DOMAIN update_dict |->
        IF field \notin DOMAIN update_dict
        THEN current_params[field]
        ELSE IF field = "income_tax_exemptions"
        THEN DictUpdate(current_params[field], update_dict[field])
        ELSE IF update_dict[field] # None
        THEN update_dict[field]
        ELSE current_params[field]]

\* update_tax_parameters(year, updates) on an instance whose _tax_params is
\* cache: the table returned, the stored settings and _tax_params afterwards
update_tax_parameters(cache, settings, year, update_dict) ==
    LET current_params ==
            MergeUpdates(get_tax_parameters(cache, settings, year).result, update_dict)
    IN  [result |-> current_params,
         settings |-> [y \in DOMAIN settings \cup {year} |->
                          IF y = year THEN current_params ELSE settings[y]],
         cache |-> <<>>]

\* updates.model_dump(exclude_unset=True) of the request bodies considered:
\* the fields the body sets, None for a null
MaxUpdates == 2

UpdatePayloads ==
    {<<>>,
     [venture_capital_rate |-> 5],
     [venture_capital_rate |-> 150],
     [vat_rate |-> 10, corporate_tax_rate |-> 20],
     [vat_rate |-> None],
     [stamp_tax_exemption_rate |-> 150],
     [income_tax_exemptions |-> [phd_other |-> 85]],
     [income_tax_exemptions |-> [bachelors |-> 120, masters_other |-> 70]],
     [venture_capital_limit |-> 20000],
     [venture_capital_max_amount |-> 300],
     [sgk_employer_share_discount |-> 40, remote_work_rate_other |-> 50],
     [remote_work_rate_informatics |-> 0 - 10],
     [daily_food_exemption |-> 33000]}

UserRoles == {"superadmin", "admin", "user"}

\* the fields the PATCH handler range-checks
CheckedRateFields ==
    {"venture_capital_rate", "corporate_tax_rate", "vat_rate",
     "remote_work_rate_informatics", "remote_work_rate_other",
     "sgk_employer_share_discount"}

\* updates.<field>: None when the body does not set it
UpdateAttr(update_dict, field) == DictGet(update_dict, field, None)

\* the checks of the PATCH /tax-parameters handler: "" when they pass
update_tax_parameters_check(role, update_dict) ==
    IF role \notin {"admin", "superadmin"}
    THEN "403"
    ELSE IF \E field \in CheckedRateFields :
               /\ UpdateAttr(update_dict, field) # None
               /\ ~(0 <= UpdateAttr(update_dict, field)
                    /\ UpdateAttr(update_dict, field) <= 100)
    THEN "400"
    ELSE ""

NoCall == [op |-> "new", year |-> 0, payload |-> <<>>, status |-> "",
           result |-> <<>>, updates |-> 0]

InitParams ==
    /\ tax_settings \in {<<>>, SeededTaxSettings}
    /\ tax_params = <<>>
    /\ params_call = NoCall
    /\ SummaryUnused /\ ConcUnused /\ PayrollUnused /\ RatioUnused /\ VcUnused /\ TaxUnused
    /\ CorpUnused /\ RatesUnused

\* get_tax_service(db): a new TaxService
GetTaxService ==
    /\ tax_params' = <<>>
    /\ params_call' = [NoCall EXCEPT !.updates = params_call.updates]
    /\ UNCHANGED <<tax_settings, payroll_vars, ratio_vars, summary_vars, conc_vars, vc_vars, tax_vars,
                   corp_vars, rates_vars>>

GetTaxParameters ==
    \E year \in ParamYears :
        LET got == get_tax_parameters(tax_params, tax_settings, year)
        IN  /\ tax_params' = got.cache
            /\ params_call' = [op |-> "get", year |-> year, payload |-> <<>>,
                               status |-> "ok", result |-> <<got.result>>,
                               updates |-> params_call.updates]
            /\ UNCHANGED <<tax_settings, payroll_vars, ratio_vars, summary_vars, conc_vars, vc_vars, tax_vars,
                           corp_vars, rates_vars>>

UpdateTaxParameters ==
    \E year \in ParamYears, update_dict \in UpdatePayloads :
        LET done == update_tax_parameters(tax_params, tax_settings, year, update_dict)
        IN  /\ params_call.updates < MaxUpdates
            /\ tax_settings' = done.settings
            /\ tax_params' = done.cache
            /\ params_call' = [op |-> "update", year |-> year, payload |-> update_dict,
                               status |-> "ok", result |-> <<done.result>>,
                               updates |-> params_call.updates + 1]
            /\ UNCHANGED <<payroll_vars, ratio_vars, summary_vars, conc_vars, vc_vars, tax_vars,
                           corp_vars, rates_vars>>

\* SpecParams: the calls on TaxService instances
NextParams == GetTaxService \/ GetTaxParameters \/ UpdateTaxParameters

SpecParams == InitParams /\ [][NextParams]_vars

\* GET /tax-parameters: a new service answers get_tax_parameters(year)
GetTaxParametersRequest ==
    \E year \in ParamYears :
        LET got == get_tax_parameters(<<>>, tax_settings, year)
        IN  /\ tax_params' = got.cache
            /\ params_call' = [op |-> "get", year |-> year, payload |-> <<>>,
                               status |-> "ok", result |-> <<got.result>>,
                               updates |-> params_call.updates]
            /\ UNCHANGED <<tax_settings, payroll_vars, ratio_vars, summary_vars, conc_vars, vc_vars, tax_vars,
                           corp_vars, rates_vars>>

\* PATCH /tax-parameters: the checks, then update_tax_parameters on a new
\* service
UpdateTaxParametersRequest ==
    \E role \in UserRoles, year \in ParamYears, update_dict \in UpdatePayloads :
        LET error == update_tax_parameters_check(role, update_dict)
            done == update_tax_parameters(<<>>, tax_settings, year, update_dict)
        IN  /\ params_call.updates < MaxUpdates
            /\ IF error # ""
               THEN /\ params_call' = [op |-> "update", year |-> year,
                                       payload |-> update_dict, status |-> error,
                                       result |-> <<>>,
                                       updates |-> params_call.updates + 1]
                    /\ tax_params' = <<>>
                    /\ UNCHANGED tax_settings
               ELSE /\ tax_settings' = done.settings
                    /\ tax_params' = done.cache
                    /\ params_call' = [op |-> "update", year |-> year,
                                       payload |-> update_dict, status |-> "ok",
                                       result |-> <<done.result>>,
                                       updates |-> params_call.updates + 1]
            /\ UNCHANGED <<payroll_vars, ratio_vars, summary_vars, conc_vars, vc_vars, tax_vars,
                           corp_vars, rates_vars>>

\* SpecRequests: the requests to the /tax-parameters endpoints
NextRequests == GetTaxParametersRequest \/ UpdateTaxParametersRequest

SpecRequests == InitParams /\ [][NextRequests]_vars

\* the table persisted for the year, the built-in defaults when there is none
PersistedTable(settings, year) ==
    IF year \in DOMAIN settings THEN settings[year] ELSE DefaultTaxParameters(year)

ScalarFields == DOMAIN DefaultTaxParameters(2026) \ {"income_tax_exemptions"}

\* C18: on one service instance, after any sequence of get and update calls
\* for any years, get_tax_parameters(y) returns the table persisted for y, or
\* the defaults of y when none is persisted (never the table cached for
\* another year), and update_tax_parameters(y, partial) returns and persists
\* the table a following get_tax_parameters(y) returns.
C18_GetReturnsPersistedTable ==
    /\ params_call.op = "get"
       => params_call.result = <<PersistedTable(tax_settings, params_call.year)>>
    /\ (params_call.op = "update" /\ params_call.status = "ok")
       => /\ params_call.result = <<PersistedTable(tax_settings, params_call.year)>>
          /\ get_tax_parameters(tax_params, tax_settings, params_call.year).result
                = params_call.result[1]

\* C19: update_tax_parameters(year, partial) overwrites the scalar fields
\* partial names (a null names nothing), changes the exemption matrix only in
\* the keys partial names, leaves every other field and key at the value of
\* the table stored for that year (the default when none was stored), and
\* leaves the tables of the other years as they were.
C19_UpdateMerges ==
    [][(params_call'.op = "update" /\ params_call'.status = "ok"
        /\ params_call'.updates = params_call.updates + 1)
       => LET year == params_call'.year
              partial == params_call'.payload
              before == PersistedTable(tax_settings, year)
              after == tax_settings'[year]
              matrix == DictGet(partial, "income_tax_exemptions", <<>>)
          IN  /\ \A field \in ScalarFields :
                    after[field] =
                        IF field \in DOMAIN partial /\ partial[field] # None
                        THEN partial[field]
                        ELSE before[field]
              /\ \A k \in IncomeTaxExemptionKeys :
                    after.income_tax_exemptions[k] =
                        IF k \in DOMAIN matrix
                        THEN matrix[k]
                        ELSE before.income_tax_exemptions[k]
              /\ DOMAIN tax_settings' = DOMAIN tax_settings \cup {year}
              /\ \A y \in DOMAIN tax_settings \ {year} :
                    tax_settings'[y] = tax_settings[y]]_vars

\* every rate of the table in [0, 1] and threshold <= cap
ValidTaxParameters(table) ==
    /\ \A field \in {"venture_capital_rate", "remote_work_rate_informatics",
                     "remote_work_rate_other", "corporate_tax_rate", "vat_rate",
                     "sgk_employer_share_discount", "stamp_tax_exemption_rate"} :
          0 <= table[field] /\ table[field] <= 100
    /\ \A k \in IncomeTaxExemptionKeys :
          0 <= table.income_tax_exemptions[k] /\ table.income_tax_exemptions[k] <= 100
    /\ table.venture_capital_limit <= table.venture_capital_max_amount

\* C20: after any sequence of update requests the stored table of every year
\* has every rate in [0, 1] and threshold <= cap; a request that would break
\* this is rejected and leaves the stored tables unchanged.
C20_StoredTablesValid ==
    /\ [](\A y \in DOMAIN tax_settings : ValidTaxParameters(tax_settings[y]))
    /\ [][(params_call'.op = "update" /\ params_call'.status # "ok")
          => tax_settings' = tax_settings]_vars

(***************************************************************************)
(* TaxService.calculate_corporate_tax_exemption over the invoices table.   *)
(* Amounts: 100 = 1,000,000 TL, as in the venture capital calculation.     *)
(* A nullable string column holds "" for NULL (the code reads it as        *)
(* (value or "")); a nullable relationship holds <<>> for None.            *)
(***************************************************************************)
SALES == "Sales"

PURCHASE == "Purchase"

RD_CENTER == "Ar-Ge Merkezi"

\* str.strip()
Strip(s) ==
    CASE s = " 351 " -> "351"
      [] s = "   " -> ""
      [] OTHER -> s

\* "351" in s
Contains351(s) == s \in {"351", " 351 ", "KDV 351 Teknokent"}

ProductRow(is_software_product, vat_exemption_reason_code) ==
    [is_software_product |-> is_software_product,
     vat_exemption_reason_code |-> vat_exemption_reason_code]

InvoiceItemRow(is_exempt, exemption_code, vat_exemption_reason, product, vat_rate, vat_amount, line_total) ==
    [is_exempt |-> is_exempt, exemption_code |-> exemption_code,
     vat_exemption_reason |-> vat_exemption_reason, product |-> product,
     vat_rate |-> vat_rate, vat_amount |-> vat_amount, line_total |-> line_total]

InvoiceRow(tenant_id, invoice_type, year, month, project, exempt_amount, total_amount, expense_center, items) ==
    [tenant_id |-> tenant_id, invoice_type |-> invoice_type, year |-> year,
     month |-> month, project |-> project, exempt_amount |-> exempt_amount,
     total_amount |-> total_amount, expense_center |-> expense_center,
     items |-> items]

\* is_exempt_line of the loop over invoice.items
is_exempt_line(item, invoice_is_technopark) ==
    LET product == item.product
        exemption_code == Strip(item.exemption_code)
        legacy_reason == Strip(item.vat_exemption_reason)
        product_code == IF product # <<>>
                        THEN Strip(product[1].vat_exemption_reason_code)
                        ELSE ""
        vat_zero == item.vat_rate = 0 \/ item.vat_amount = 0
    IN  \/ item.is_exempt
        \/ exemption_code \in {"351", "3065 G.20/1"}
        \/ Contains351(legacy_reason)
        \/ product_code = "351"
        \/ (product # <<>> /\ product[1].is_software_product)
        \/ (invoice_is_technopark /\ vat_zero)

RECURSIVE ExemptLinesLoop(_, _, _)
\* the loop over invoice.items[i..]: what it adds to total_exempt_income
ExemptLinesLoop(items, i, invoice_is_technopark) ==
    IF i > Len(items)
    THEN 0
    ELSE (IF is_exempt_line(items[i], invoice_is_technopark)
          THEN items[i].line_total
          ELSE 0)
         + ExemptLinesLoop(items, i + 1, invoice_is_technopark)

\* the rows a query on invoices returns: type, year and month of issue_date,
\* and the tenant filter, which "if tenant_id:" skips for None
InvoiceQuery(rows, invoice_type, tenant_id, year, month) ==
    {i \in DOMAIN rows :
        /\ rows[i].invoice_type = invoice_type
        /\ rows[i].year = year
        /\ rows[i].month = month
        /\ tenant_id # None => rows[i].tenant_id = tenant_id}

RECURSIVE ExemptIncomeLoop(_, _)
\* the loop over sales_invoices: total_exempt_income
ExemptIncomeLoop(rows, ids) ==
    IF ids = {}
    THEN 0
    ELSE LET i == CHOOSE x \in ids : TRUE
             invoice == rows[i]
             invoice_is_technopark ==
                 invoice.project # <<>> /\ invoice.project[1].is_technopark_project
         IN  (IF invoice.exempt_amount # None /\ invoice.exempt_amount > 0
              THEN invoice.exempt_amount
              ELSE ExemptLinesLoop(invoice.items, 1, invoice_is_technopark))
             + ExemptIncomeLoop(rows, ids \ {i})

RECURSIVE SumTotalAmount(_, _)
\* sum(inv.total_amount for inv in expense_invoices)
SumTotalAmount(rows, ids) ==
    IF ids = {}
    THEN 0
    ELSE LET i == CHOOSE x \in ids : TRUE
         IN  rows[i].total_amount + SumTotalAmount(rows, ids \ {i})

CorporateTaxExemptionResultNoFloor(params, total_exempt_income, total_rd_expense) ==
    LET exemption_base == total_exempt_income - total_rd_expense
        venture_capital_obligation ==
            check_venture_capital_obligation(exemption_base, params)
    IN  [total_exempt_income |-> total_exempt_income,
         total_rd_expense |-> total_rd_expense,
         exemption_base |-> exemption_base,
         corporate_tax_exemption |->
             Pct(exemption_base, DictGet(params, "corporate_tax_rate", 25)),
         vat_exemption |-> Pct(total_exempt_income, DictGet(params, "vat_rate", 20)),
         venture_capital_obligation |-> venture_capital_obligation,
         is_venture_capital_required |-> venture_capital_obligation > 0]

\* the figures of the result, from the two totals
CorporateTaxExemptionResult(params, total_exempt_income, total_rd_expense) ==
    LET exemption_base == Max(0, total_exempt_income - total_rd_expense)
        venture_capital_obligation ==
            check_venture_capital_obligation(exemption_base, params)
    IN  [total_exempt_income |-> total_exempt_income,
         total_rd_expense |-> total_rd_expense,
         exemption_base |-> exemption_base,
         corporate_tax_exemption |->
             Pct(exemption_base, DictGet(params, "corporate_tax_rate", 25)),
         vat_exemption |-> Pct(total_exempt_income, DictGet(params, "vat_rate", 20)),
         venture_capital_obligation |-> venture_capital_obligation,
         is_venture_capital_required |-> venture_capital_obligation > 0]

\* calculate_corporate_tax_exemption(tenant_id, year, month) on an instance
\* whose _tax_params is cache: the result and _tax_params afterwards
calculate_corporate_tax_exemption(cache, settings, rows, tenant_id, year, month) ==
    LET got == get_tax_parameters(cache, settings, year)
        sales_invoices == InvoiceQuery(rows, SALES, tenant_id, year, month)
        expense_invoices ==
            {i \in InvoiceQuery(rows, PURCHASE, tenant_id, year, month) :
                rows[i].expense_center = RD_CENTER}
    IN  [result |-> CorporateTaxExemptionResult(got.result,
                        ExemptIncomeLoop(rows, sales_invoices),
                        SumTotalAmount(rows, expense_invoices)),
         cache |-> got.cache]

(***************************************************************************)
(* SpecCorporate: the invoices table, filled by earlier activity and by    *)
(* POST /invoices, and the corporate exemption calculated over it.         *)
(***************************************************************************)
MaxInvoices == 1

InvoiceMonths == {1, 2}

\* the line payloads considered: flagged with a code, a software product,
\* a plain product at 20% VAT, a line at 0% VAT
ItemPayloads ==
    {[product |-> <<>>, is_exempt |-> TRUE, exemption_code |-> "351",
      quantity |-> 1, unit_price |-> 100, vat_rate |-> 20],
     [product |-> <<ProductRow(TRUE, "")>>, is_exempt |-> FALSE, exemption_code |-> "",
      quantity |-> 2, unit_price |-> 100, vat_rate |-> 20],
     [product |-> <<ProductRow(FALSE, "")>>, is_exempt |-> FALSE, exemption_code |-> "",
      quantity |-> 1, unit_price |-> 300, vat_rate |-> 20],
     [product |-> <<>>, is_exempt |-> FALSE, exemption_code |-> "",
      quantity |-> 1, unit_price |-> 100, vat_rate |-> 0]}

InvoicePayloads ==
    [invoice_type : {SALES}, year : Years, month : InvoiceMonths,
     project : {<<>>, <<[is_technopark_project |-> TRUE]>>},
     items : SeqsOf(ItemPayloads, 1, 2)]
    \cup
    [invoice_type : {PURCHASE}, year : Years, month : InvoiceMonths,
     project : {<<>>}, items : SeqsOf(ItemPayloads, 1, 1)]

\* tables left by earlier activity: rows of two tenants, lines marked only
\* by the legacy reason or the product's code, R&D centre purchases
StoredInvoiceTables ==
    {<<>>,
     <<InvoiceRow(1, SALES, 2026, 1, <<>>, 0, 520, "",
          <<InvoiceItemRow(FALSE, "", "KDV 351 Teknokent", <<>>, 0, 0, 400),
            InvoiceItemRow(FALSE, "", "", <<>>, 20, 20, 100)>>),
       InvoiceRow(1, PURCHASE, 2026, 1, <<>>, 0, 600, RD_CENTER, <<>>)>>,
     <<InvoiceRow(2, SALES, 2026, 1, <<[is_technopark_project |-> TRUE]>>, None, 800, "",
          <<InvoiceItemRow(FALSE, "", "", <<>>, 0, 0, 700),
            InvoiceItemRow(FALSE, "", "", <<ProductRow(FALSE, " 351 ")>>, 0, 0, 100)>>),
       InvoiceRow(2, PURCHASE, 2026, 1, <<>>, 0, 100, "Pazarlama", <<>>)>>,
     <<InvoiceRow(1, SALES, 2026, 2, <<>>, 300, 300, "",
          <<InvoiceItemRow(TRUE, "3065 G.20/1", "", <<>>, 0, 0, 300)>>),
       InvoiceRow(1, PURCHASE, 2026, 2, <<>>, 0, 900, RD_CENTER, <<>>)>>}

StoredTaxSettings ==
    {<<>>, SeededTaxSettings,
     2026 :> [DefaultTaxParameters(2026) EXCEPT !.vat_rate = 10,
                                               !.venture_capital_limit = 300]}

InitCorporate ==
    /\ invoices \in StoredInvoiceTables
    /\ corp_result = <<>>
    /\ tax_settings \in StoredTaxSettings
    /\ tax_params = <<>>
    /\ params_call = NoCall
    /\ SummaryUnused /\ ConcUnused /\ PayrollUnused /\ RatioUnused /\ VcUnused /\ TaxUnused /\ RatesUnused

\* the invoice_items row create_invoice stores for a line of the payload
create_invoice_item(item, is_technopark) ==
    LET auto == /\ is_technopark
                /\ item.product # <<>>
                /\ item.product[1].is_software_product
                /\ ~item.is_exempt
        is_exempt == item.is_exempt \/ auto
        exemption_code == IF auto THEN "3065 G.20/1" ELSE item.exemption_code
        line_total == item.quantity * item.unit_price
    IN  InvoiceItemRow(is_exempt, exemption_code, "", item.product,
            IF is_exempt THEN 0 ELSE item.vat_rate,
            IF is_exempt THEN 0 ELSE Pct(line_total, item.vat_rate),
            line_total)

RECURSIVE SumField(_, _, _)
SumField(rows, field, i) ==
    IF i > Len(rows) THEN 0 ELSE rows[i][field] + SumField(rows, field, i + 1)

\* the invoices row, with its items, that create_invoice stores; the payloads
\* carry no withholding
create_invoice(invoice) ==
    LET is_technopark ==
            invoice.project # <<>> /\ invoice.project[1].is_technopark_project
        items == [k \in DOMAIN invoice.items |->
                     create_invoice_item(invoice.items[k], is_technopark)]
        exempt == [k \in DOMAIN items |->
                      [line_total |-> IF items[k].is_exempt
                                      THEN items[k].line_total ELSE 0]]
    IN  InvoiceRow(None, invoice.invoice_type, invoice.year, invoice.month,
            invoice.project, SumField(exempt, "line_total", 1),
            SumField(items, "line_total", 1) + SumField(items, "vat_amount", 1),
            "", items)

CreateInvoice ==
    \E invoice \in InvoicePayloads :
        /\ Cardinality({i \in DOMAIN invoices : invoices[i].tenant_id = None}) < MaxInvoices
        /\ invoices' = Append(invoices, create_invoice(invoice))
        /\ UNCHANGED <<corp_result, params_vars, payroll_vars, ratio_vars, summary_vars, conc_vars, vc_vars,
                       tax_vars, rates_vars>>

\* a request that calculates the corporate exemption on a new service
CalculateCorporateTaxExemption ==
    \E tenant_id \in CallerTenants, year \in Years, month \in InvoiceMonths :
        LET done == calculate_corporate_tax_exemption(<<>>, tax_settings, invoices,
                                                      tenant_id, year, month)
        IN  /\ corp_result' = <<[tenant_id |-> tenant_id, year |-> year,
                                 month |-> month, result |-> done.result]>>
            /\ tax_params' = done.cache
            /\ UNCHANGED <<invoices, tax_settings, params_call, payroll_vars,
                           ratio_vars, summary_vars, conc_vars, vc_vars, tax_vars,
                           rates_vars>>

NextCorporate == CreateInvoice \/ CalculateCorporateTaxExemption

SpecCorporate == InitCorporate /\ [][NextCorporate]_vars

\* C12: the result's exemption_base is max(0, total_exempt_income -
\* total_rd_expense) and never negative, also when the R&D expense exceeds
\* the exempt income, and its vat_exemption is total_exempt_income times the
\* VAT rate of the year's parameters (on the exempt income, not on the base).
C12_ExemptionBaseFloored ==
    corp_result # <<>> =>
        LET r == corp_result[1].result
            vat_rate == PersistedTable(tax_settings, corp_result[1].year).vat_rate
        IN  /\ r.exemption_base = Max(0, r.total_exempt_income - r.total_rd_expense)
            /\ r.exemption_base >= 0
            /\ r.vat_exemption = Pct(r.total_exempt_income, vat_rate)

C12_Witness ==
    /\ corp_result # <<>>
    /\ corp_result[1].result.total_exempt_income > 0
    /\ corp_result[1].result.total_rd_expense
          > corp_result[1].result.total_exempt_income
    /\ corp_result[1].result.exemption_base = 0
    /\ corp_result[1].result.vat_exemption > 0

\* the classification rule of the claim, the codes read at their widest: the
\* line is flagged exempt, or carries the statutory code (as its exemption
\* code, in its legacy reason or on its product), or its product is a
\* software product, or its invoice belongs to a technopark project and its
\* VAT is zero
ClassifiedExempt(invoice, item) ==
    \/ item.is_exempt
    \/ Strip(item.exemption_code) \in {"351", "3065 G.20/1"}
    \/ Contains351(item.vat_exemption_reason)
    \/ (item.product # <<>> /\ Strip(item.product[1].vat_exemption_reason_code) = "351")
    \/ (item.product # <<>> /\ item.product[1].is_software_product)
    \/ /\ invoice.project # <<>>
       /\ invoice.project[1].is_technopark_project
       /\ (item.vat_rate = 0 \/ item.vat_amount = 0)

\* the sales-side lines of the period, as <<invoice id, line number>>
SalesLines(tenant_id, year, month) ==
    UNION {{<<i, k>> : k \in DOMAIN invoices[i].items} :
              i \in InvoiceQuery(invoices, SALES, tenant_id, year, month)}

RECURSIVE SumLineTotals(_)
SumLineTotals(lines) ==
    IF lines = {}
    THEN 0
    ELSE LET l == CHOOSE x \in lines : TRUE
         IN  invoices[l[1]].items[l[2]].line_total + SumLineTotals(lines \ {l})

\* C13: the period's exempt income is the sum of the line totals of exactly
\* the sales-side lines of the period that the classification rule accepts,
\* each counted once; a line the rule rejects adds nothing.
C13_ExemptIncomeIsClassifiedLines ==
    corp_result # <<>> =>
        corp_result[1].result.total_exempt_income =
            SumLineTotals({l \in SalesLines(corp_result[1].tenant_id,
                                            corp_result[1].year, corp_result[1].month) :
                              ClassifiedExempt(invoices[l[1]], invoices[l[1]].items[l[2]])})

(***************************************************************************)
(* The incentive rate resolvers: TaxService._get_income_tax_exemption_rate *)
(* on a User, PayrollService.get_exemption_rates and calculate_entry on an *)
(* Employee.  Rates are in percent.  User.education_level is a string      *)
(* column: "" stands for NULL or the empty string, which the code reads    *)
(* alike (education_level or "Lisans").  The strings are written without   *)
(* their diacritics: "Yuksek Lisans" and "Diger" are EducationLevel.MASTER *)
(* and EducationLevel.OTHER.                                               *)
(***************************************************************************)
UserEducationLevels == {"Doktora", "Yuksek Lisans", "Lisans", "Diger", "", "Lise"}

UserRow(education_level, is_basic_science_grad) ==
    [education_level |-> education_level,
     is_basic_science_grad |-> is_basic_science_grad]

_get_income_tax_exemption_rateFieldBlind(user, params) ==
    LET exemptions == DictGet(params, "income_tax_exemptions", <<>>)
        education_level == IF user.education_level = ""
                           THEN "Lisans"
                           ELSE user.education_level
    IN  IF education_level = "Doktora"
        THEN DictGet(exemptions, "phd_basic_sciences", 95)
        ELSE IF education_level = "Yuksek Lisans"
        THEN DictGet(exemptions, "masters_basic_sciences", 90)
        ELSE DictGet(exemptions, "bachelors", 80)

_get_income_tax_exemption_rate(user, params) ==
    LET exemptions == DictGet(params, "income_tax_exemptions", <<>>)
        education_level == IF user.education_level = ""
                           THEN "Lisans"
                           ELSE user.education_level
        is_basic_science == user.is_basic_science_grad
    IN  IF education_level = "Doktora"
        THEN IF is_basic_science
             THEN DictGet(exemptions, "phd_basic_sciences", 95)
             ELSE DictGet(exemptions, "phd_other", 90)
        ELSE IF education_level = "Yuksek Lisans"
        THEN IF is_basic_science
             THEN DictGet(exemptions, "masters_basic_sciences", 90)
             ELSE DictGet(exemptions, "masters_other", 80)
        ELSE DictGet(exemptions, "bachelors", 80)

\* the params dicts considered: the default table, a table with another
\* matrix, a table whose matrix lacks keys, a dict without the matrix
RateParamTables ==
    {DefaultTaxParameters(2026),
     [DefaultTaxParameters(2026) EXCEPT !.income_tax_exemptions =
        [phd_basic_sciences |-> 100, masters_basic_sciences |-> 85, phd_other |-> 70,
         masters_other |-> 60, bachelors |-> 50]],
     [DefaultTaxParameters(2026) EXCEPT !.income_tax_exemptions =
        [phd_basic_sciences |-> 100, bachelors |-> 50]],
     [year |-> 2026]}

GrossSalaries == {0, 10000000, 30000000}

RateEmployees ==
    {EmployeeRow(1, p, TRUE, e, f, g) :
        p \in PersonnelTypes, e \in EducationLevels, f \in GraduationFields,
        g \in GrossSalaries}

RateUsers == {UserRow(e, b) : e \in UserEducationLevels, b \in BOOLEAN}

InitRates ==
    /\ rate_employee \in RateEmployees
    /\ rate_user \in RateUsers
    /\ rate_params \in RateParamTables
    /\ rate_result = <<>>
    /\ SummaryUnused /\ ConcUnused /\ PayrollUnused /\ RatioUnused /\ VcUnused /\ TaxUnused
    /\ ParamsUnused /\ CorpUnused

GetIncomeTaxExemptionRate ==
    /\ rate_result' = <<[op |-> "_get_income_tax_exemption_rate",
                         value |-> _get_income_tax_exemption_rate(rate_user, rate_params)]>>
    /\ UNCHANGED <<rate_employee, rate_user, rate_params, payroll_vars, ratio_vars, summary_vars, conc_vars,
                   vc_vars, tax_vars, params_vars, corp_vars>>

GetExemptionRates ==
    /\ rate_result' = <<[op |-> "get_exemption_rates",
                         value |-> get_exemption_rates(rate_employee)]>>
    /\ UNCHANGED <<rate_employee, rate_user, rate_params, payroll_vars, ratio_vars, summary_vars, conc_vars,
                   vc_vars, tax_vars, params_vars, corp_vars>>

\* the period inputs of the calculate_entry calls
RateEntryInputs == {e \in EntryInputs : e.employee_id = 1}

CalculateEntry ==
    \E entry_input \in RateEntryInputs, year \in Years :
        /\ rate_result' = <<[op |-> "calculate_entry",
                             input |-> entry_input,
                             brackets |-> get_income_tax_brackets(year),
                             value |-> calculate_entry(rate_employee, entry_input,
                                                       get_income_tax_brackets(year))]>>
        /\ UNCHANGED <<rate_employee, rate_user, rate_params, payroll_vars, ratio_vars, summary_vars, conc_vars,
                       vc_vars, tax_vars, params_vars, corp_vars>>

NextRates == GetIncomeTaxExemptionRate \/ GetExemptionRates \/ CalculateEntry

SpecRates == InitRates /\ [][NextRates]_vars

\* the matrix key of a combination, as the claims pair them
MatrixKey(education, basic_sciences) ==
    CASE education = "phd" /\ basic_sciences -> "phd_basic_sciences"
      [] education = "phd" /\ ~basic_sciences -> "phd_other"
      [] education = "master" /\ basic_sciences -> "masters_basic_sciences"
      [] education = "master" /\ ~basic_sciences -> "masters_other"
      [] OTHER -> "bachelors"

UserEducation(user) ==
    CASE user.education_level = "Doktora" -> "phd"
      [] user.education_level = "Yuksek Lisans" -> "master"
      [] user.education_level = "Lisans" -> "bachelor"
      [] OTHER -> "unmapped"

EmployeeEducation(employee) ==
    CASE employee.education_level = "PHD" -> "phd"
      [] employee.education_level = "MASTER" -> "master"
      [] employee.education_level = "BACHELOR" -> "bachelor"
      [] OTHER -> "unmapped"

\* C14: the resolver returns the matrix entry of the table for the user's
\* combination; with the default table 95 for phd + basic sciences, 90 for
\* master + basic sciences, 90 for phd + other, 80 for master + other and 80
\* for bachelor with any field.
C14_RateIsMatrixEntry ==
    (/\ rate_result # <<>>
     /\ rate_result[1].op = "_get_income_tax_exemption_rate"
     /\ UserEducation(rate_user) # "unmapped"
     /\ "income_tax_exemptions" \in DOMAIN rate_params)
    => LET key == MatrixKey(UserEducation(rate_user), rate_user.is_basic_science_grad)
           rate == rate_result[1].value
       IN  /\ key \in DOMAIN rate_params.income_tax_exemptions
              => rate = rate_params.income_tax_exemptions[key]
           /\ rate_params = DefaultTaxParameters(2026)
              => rate = CASE key = "phd_basic_sciences" -> 95
                          [] key = "masters_basic_sciences" -> 90
                          [] key = "phd_other" -> 90
                          [] key = "masters_other" -> 80
                          [] OTHER -> 80

C14_Witness ==
    /\ rate_result # <<>>
    /\ rate_result[1].op = "_get_income_tax_exemption_rate"
    /\ rate_user.education_level = "Yuksek Lisans"
    /\ ~rate_user.is_basic_science_grad
    /\ "income_tax_exemptions" \in DOMAIN rate_params
    /\ rate_params # DefaultTaxParameters(2026)
    /\ "masters_other" \in DOMAIN rate_params.income_tax_exemptions
    /\ rate_result[1].value = 60

\* C15: for an R&D or software employee with education phd, master or
\* bachelor, the income-tax incentive of calculate_entry is the computed
\* income tax times the rate of the table for the employee's combination
\* (95 phd + basic sciences, 90 master + basic sciences, 90 phd + other,
\* 80 master + other, 80 bachelor).
C15_EntryUsesTableRate ==
    (/\ rate_result # <<>>
     /\ rate_result[1].op = "calculate_entry"
     /\ rate_employee.personnel_type \in {"RD_PERSONNEL", "SOFTWARE_PERSONNEL"}
     /\ EmployeeEducation(rate_employee) # "unmapped")
    => LET key == MatrixKey(EmployeeEducation(rate_employee),
                            rate_employee.graduation_field = "BASIC_SCIENCES")
           entry == rate_result[1].value
       IN  entry.income_tax_exemption_amount =
               Pct(calculate_progressive_tax(entry.income_tax_base,
                                             rate_result[1].brackets),
                   DefaultTaxParameters(2026).income_tax_exemptions[key])

\* C16: for an eligible employee or a user whose education the table does
\* not map (below bachelor, other, missing) the income-tax exemption rate is
\* the lowest tier, the bachelor rate.
C16_UnmappedGetsBachelorRate ==
    /\ (/\ rate_result # <<>>
        /\ rate_result[1].op = "get_exemption_rates"
        /\ rate_employee.personnel_type \in {"RD_PERSONNEL", "SOFTWARE_PERSONNEL"}
        /\ EmployeeEducation(rate_employee) = "unmapped")
       => rate_result[1].value.income_tax
             = get_exemption_rates([rate_employee EXCEPT
                   !.education_level = "BACHELOR", !.graduation_field = "OTHER"]).income_tax
    /\ (/\ rate_result # <<>>
        /\ rate_result[1].op = "_get_income_tax_exemption_rate"
        /\ UserEducation(rate_user) = "unmapped")
       => rate_result[1].value
             = _get_income_tax_exemption_rate(UserRow("Lisans", FALSE), rate_params)

ServiceIds == {1, 2}

\* the fields of TaxParametersUpdate, the order of update_dict.items()
TaxParametersUpdateFields ==
    <<"venture_capital_limit", "venture_capital_rate", "venture_capital_max_amount",
      "remote_work_rate_informatics", "remote_work_rate_other",
      "income_tax_exemptions", "corporate_tax_rate", "vat_rate",
      "daily_food_exemption", "daily_transport_exemption",
      "sgk_employer_share_discount", "stamp_tax_exemption_rate">>

InUpdate(update_dict, field) == field \in DOMAIN update_dict

\* list(update_dict.items()): the fields the body sets, in schema order
UpdateItems(update_dict) ==
    SelectSeq(TaxParametersUpdateFields, LAMBDA field : InUpdate(update_dict, field))

\* one round of the loop of update_tax_parameters
MergeField(current_params, field, value) ==
    IF field = "income_tax_exemptions"
    THEN [current_params EXCEPT ![field] = DictUpdate(@, value)]
    ELSE IF value # None
    THEN DictUpdate(current_params, field :> value)
    ELSE current_params

\* a module-level instance handed to every request
get_tax_serviceSingleton(instances, r) == 1

\* get_tax_service(db) in request r: the id of a new TaxService
get_tax_service(instances, r) ==
    CHOOSE id \in ServiceIds : id \notin DOMAIN instances

\* TaxService.__init__ when the instance is new
NewService(instances, id) ==
    IF id \in DOMAIN instances THEN instances ELSE instances @@ (id :> <<>>)

IdleGet == [pc |-> "idle", svc |-> 0, year |-> 0, result |-> <<>>]

IdlePatch ==
    [pc |-> "idle", svc |-> 0, year |-> 0, payload |-> <<>>, status |-> "",
     aliased |-> FALSE, current_params |-> <<>>, todo |-> <<>>,
     pending |-> <<>>, result |-> <<>>]

\* conc.initial keeps the settings the requests started from, for the
\* properties only
InitConcurrent ==
    /\ tax_settings \in {<<>>, SeededTaxSettings}
    /\ tax_params = <<>>
    /\ params_call = <<>>
    /\ services = <<>>
    /\ conc = [reader |-> IdleGet, writer |-> IdlePatch, initial |-> tax_settings]
    /\ users = <<>>
    /\ summary_call = <<>>
    /\ PayrollUnused /\ RatioUnused /\ VcUnused /\ TaxUnused
    /\ CorpUnused /\ RatesUnused

ConcFrame ==
    UNCHANGED <<tax_params, params_call, payroll_vars, ratio_vars, vc_vars, tax_vars,
                corp_vars, rates_vars, summary_vars>>

\* GET /tax-parameters: tax_service = get_tax_service(db)
GetBegin ==
    \E year \in ParamYears :
        LET svc == get_tax_service(services, "reader")
        IN  /\ conc.reader.pc = "idle"
            /\ services' = NewService(services, svc)
            /\ conc' = [conc EXCEPT !.reader =
                            [@ EXCEPT !.pc = "query", !.svc = svc, !.year = year]]
            /\ UNCHANGED tax_settings
            /\ ConcFrame

\* params = tax_service.get_tax_parameters(year), and the response
GetQuery ==
    LET r == conc.reader
        got == get_tax_parameters(services[r.svc], tax_settings, r.year)
    IN  /\ r.pc = "query"
        /\ services' = [services EXCEPT ![r.svc] = got.cache]
        /\ conc' = [conc EXCEPT !.reader =
                        [@ EXCEPT !.pc = "done", !.result = <<got.result>>]]
        /\ UNCHANGED tax_settings
        /\ ConcFrame

\* PATCH /tax-parameters: the checks, then tax_service = get_tax_service(db)
PatchBegin ==
    \E role \in UserRoles, year \in ParamYears, update_dict \in UpdatePayloads :
        LET error == update_tax_parameters_check(role, update_dict)
            svc == get_tax_service(services, "writer")
        IN  /\ conc.writer.pc = "idle"
            /\ IF error # ""
               THEN /\ conc' = [conc EXCEPT !.writer =
                                    [@ EXCEPT !.pc = "done", !.year = year,
                                              !.payload = update_dict,
                                              !.status = error]]
                    /\ UNCHANGED services
               ELSE /\ services' = NewService(services, svc)
                    /\ conc' = [conc EXCEPT !.writer =
                                    [@ EXCEPT !.pc = "get", !.svc = svc, !.year = year,
                                              !.payload = update_dict]]
            /\ UNCHANGED tax_settings
            /\ ConcFrame

\* current_params = self.get_tax_parameters(year); update_dict = ...
PatchGet ==
    LET w == conc.writer
        got == get_tax_parameters(services[w.svc], tax_settings, w.year)
    IN  /\ w.pc = "get"
        /\ services' = [services EXCEPT ![w.svc] = got.cache]
        /\ conc' = [conc EXCEPT !.writer =
                        [@ EXCEPT !.pc = "merge", !.aliased = (got.cache # <<>>),
                                  !.current_params = got.result,
                                  !.todo = UpdateItems(w.payload)]]
        /\ UNCHANGED tax_settings
        /\ ConcFrame

\* one round of for field, value in update_dict.items()
PatchMerge ==
    LET w == conc.writer
        field == Head(w.todo)
        merged == MergeField(w.current_params, field, w.payload[field])
    IN  /\ w.pc = "merge"
        /\ w.todo # <<>>
        /\ services' = IF w.aliased
                       THEN [services EXCEPT ![w.svc] = <<merged>>]
                       ELSE services
        /\ conc' = [conc EXCEPT !.writer =
                        [@ EXCEPT !.current_params = merged, !.todo = Tail(w.todo)]]
        /\ UNCHANGED tax_settings
        /\ ConcFrame

\* setting.value = json.dumps(current_params), or db.add(setting): a change
\* of the writer's session
PatchSave ==
    LET w == conc.writer
    IN  /\ w.pc = "merge"
        /\ w.todo = <<>>
        /\ conc' = [conc EXCEPT !.writer =
                        [@ EXCEPT !.pc = "commit", !.pending = <<w.current_params>>]]
        /\ UNCHANGED <<tax_settings, services>>
        /\ ConcFrame

\* self.db.commit()
PatchCommit ==
    LET w == conc.writer
    IN  /\ w.pc = "commit"
        /\ tax_settings' = [y \in DOMAIN tax_settings \cup {w.year} |->
                               IF y = w.year THEN w.pending[1] ELSE tax_settings[y]]
        /\ conc' = [conc EXCEPT !.writer = [@ EXCEPT !.pc = "clear", !.pending = <<>>]]
        /\ UNCHANGED services
        /\ ConcFrame

\* self._tax_params = None; return TaxParameters2026(**current_params)
PatchReturn ==
    LET w == conc.writer
    IN  /\ w.pc = "clear"
        /\ services' = [services EXCEPT ![w.svc] = <<>>]
        /\ conc' = [conc EXCEPT !.writer =
                        [@ EXCEPT !.pc = "done", !.status = "ok",
                                  !.result = <<w.current_params>>]]
        /\ UNCHANGED tax_settings
        /\ ConcFrame

\* SpecParamsConcurrent: one GET and one PATCH request, interleaved
NextParamsConcurrent ==
    \/ GetBegin \/ GetQuery
    \/ PatchBegin \/ PatchGet \/ PatchMerge \/ PatchSave \/ PatchCommit \/ PatchReturn

SpecParamsConcurrent == InitConcurrent /\ [][NextParamsConcurrent]_vars

\* the table persisted for the year before the update
PreUpdateTable(year) == PersistedTable(conc.initial, year)

\* the table persisted for the year once the update is through
PostUpdateTable(year) ==
    IF /\ conc.writer.pc \notin {"idle"}
       /\ conc.writer.year = year
       /\ conc.writer.status \in {"", "ok"}
    THEN MergeUpdates(PreUpdateTable(year), conc.writer.payload)
    ELSE PreUpdateTable(year)

\* C21: a get_tax_parameters request that runs concurrently with an
\* update_tax_parameters request for the same year answers with the whole
\* table persisted before the update or the whole table persisted after it,
\* never with a table that has some of the update's fields merged and
\* others not, whatever the interleaving of the two requests
C21_GetSeesWholeTable ==
    (conc # <<>> /\ conc.reader.pc = "done")
        => conc.reader.result[1] \in {PreUpdateTable(conc.reader.year),
                                      PostUpdateTable(conc.reader.year)}

\* the update and the store agree on the post-update table
C21_UpdateStoresPostTable ==
    (conc # <<>> /\ conc.writer.pc \in {"clear", "done"} /\ conc.writer.status \in {"", "ok"})
        => /\ conc.writer.year \in DOMAIN tax_settings
           /\ tax_settings[conc.writer.year] = PostUpdateTable(conc.writer.year)

\* the reader, whose service was made after the writer's, has answered while
\* the writer was between two rounds of its merge loop, for the same year
C21_Witness ==
    /\ conc # <<>>
    /\ conc.reader.pc = "done"
    /\ conc.reader.svc = 2
    /\ conc.writer.pc = "merge"
    /\ conc.writer.year = conc.reader.year
    /\ conc.writer.current_params # PreUpdateTable(conc.writer.year)
    /\ conc.writer.current_params # PostUpdateTable(conc.writer.year)

(***************************************************************************)
(* TaxService.calculate_personnel_incentives, calculate_monthly_tax_summary *)
(* and calculate_yearly_summary.  A users row has the id of its position;  *)
(* a missing daily_gross_salary is None, a missing education_level "".     *)
(* Amounts are in the units of the corporate calculation and a product     *)
(* with a rate or a fraction is cut to the unit.  A raised exception is    *)
(* the error of the outcome.                                               *)
(***************************************************************************)
\* F(v) with v worked out once, as a statement binds a local once
Bind(F(_), v) == CHOOSE out \in {F(x) : x \in {v}} : TRUE

TaxUserRow(tenant_id, is_active, daily_gross_salary, education_level, is_basic_science_grad, is_informatics_personnel) ==
    [tenant_id |-> tenant_id, is_active |-> is_active,
     daily_gross_salary |-> daily_gross_salary,
     education_level |-> education_level,
     is_basic_science_grad |-> is_basic_science_grad,
     is_informatics_personnel |-> is_informatics_personnel]

_get_remote_work_rate(user, params) ==
    IF user.is_informatics_personnel
    THEN DictGet(params, "remote_work_rate_informatics", 100)
    ELSE DictGet(params, "remote_work_rate_other", 75)

\* users_query.all(): the active users, of the tenant unless "if tenant_id:"
\* skips the filter
UsersQuery(rows, tenant_id) ==
    SelectSeq([i \in 1..Len(rows) |-> i],
              LAMBDA i : /\ rows[i].is_active
                         /\ tenant_id # None => rows[i].tenant_id = tenant_id)

RECURSIVE WorkDataMap(_, _, _)
\* work_data_map.get(user.id, {"days_worked": 22, "remote_days": 0}): the
\* last element of personnel_work_data for the user
WorkDataMap(personnel_work_data, i, user_id) ==
    IF i = 0
    THEN [user_id |-> user_id, days_worked |-> 22, remote_days |-> 0]
    ELSE IF personnel_work_data[i].user_id = user_id
    THEN personnel_work_data[i]
    ELSE WorkDataMap(personnel_work_data, i - 1, user_id)

\* user.daily_gross_salary or 0.0
DailySalary(user) ==
    IF user.daily_gross_salary = None THEN 0 ELSE user.daily_gross_salary

SkipsUserNever(user) == FALSE

\* if daily_salary <= 0: continue
SkipsUser(user) == DailySalary(user) <= 0

\* the figures of one user's PersonnelIncentiveResult; days_worked is not 0
PersonnelIncentiveResult(user, user_id, work_data, params) ==
    LET days_worked == work_data.days_worked
        remote_days == work_data.remote_days
        remote_work_rate == _get_remote_work_rate(user, params)
        income_tax_exemption_rate == _get_income_tax_exemption_rate(user, params)
        monthly_gross == DailySalary(user) * days_worked
        office_days == days_worked - remote_days
        office_exemption ==
            Pct(Pct(Frac(monthly_gross, office_days, days_worked),
                    income_tax_exemption_rate), 15)
        remote_exemption ==
            Pct(Pct(Pct(Frac(monthly_gross, remote_days, days_worked),
                        income_tax_exemption_rate), remote_work_rate), 15)
        calculated_income_tax_exemption == office_exemption + remote_exemption
        sgk_employer_discount ==
            Pct(Frac(monthly_gross, 225, 1000),
                DictGet(params, "sgk_employer_share_discount", 50))
        stamp_tax_exemption ==
            Pct(Frac(monthly_gross, 759, 100000),
                DictGet(params, "stamp_tax_exemption_rate", 100))
    IN  [user_id |-> user_id,
         education_level |-> IF user.education_level = ""
                             THEN "Lisans"
                             ELSE user.education_level,
         is_basic_science_grad |-> user.is_basic_science_grad,
         is_informatics_personnel |-> user.is_informatics_personnel,
         days_worked |-> days_worked,
         remote_days |-> remote_days,
         remote_work_ratio |-> remote_work_rate,
         income_tax_exemption_rate |-> income_tax_exemption_rate,
         calculated_income_tax_exemption |-> calculated_income_tax_exemption,
         sgk_employer_discount |-> sgk_employer_discount,
         stamp_tax_exemption |-> stamp_tax_exemption,
         total_incentive |-> calculated_income_tax_exemption + sgk_employer_discount
                             + stamp_tax_exemption]

RECURSIVE PersonnelIncentivesLoop(_, _, _, _, _, _)
\* for user in users: office_days / days_worked raises ZeroDivisionError
\* when days_worked is 0
PersonnelIncentivesLoop(rows, queue, personnel_work_data, params, results, total_incentive) ==
    IF queue = <<>>
    THEN [error |-> "", results |-> results, total_incentive |-> total_incentive]
    ELSE LET user_id == Head(queue)
             user == rows[user_id]
             work_data == WorkDataMap(personnel_work_data, Len(personnel_work_data),
                                      user_id)
             person == PersonnelIncentiveResult(user, user_id, work_data, params)
         IN  IF SkipsUser(user)
             THEN PersonnelIncentivesLoop(rows, Tail(queue), personnel_work_data,
                                          params, results, total_incentive)
             ELSE IF work_data.days_worked = 0
             THEN [error |-> "ZeroDivisionError", results |-> <<>>,
                   total_incentive |-> 0]
             ELSE PersonnelIncentivesLoop(rows, Tail(queue), personnel_work_data,
                                          params, Append(results, person),
                                          total_incentive + person.total_incentive)

\* calculate_personnel_incentives(tenant_id, year, month, personnel_work_data)
\* on an instance whose _tax_params is cache; personnel_work_data None is <<>>
calculate_personnel_incentives(cache, settings, rows, tenant_id, year, month, personnel_work_data) ==
    LET got == get_tax_parameters(cache, settings, year)
        done == PersonnelIncentivesLoop(rows, UsersQuery(rows, tenant_id),
                                        personnel_work_data, got.result, <<>>, 0)
    IN  [error |-> done.error, results |-> done.results,
         total_incentive |-> done.total_incentive, cache |-> got.cache]

\* the amount as "{:,.2f} TL" prints it: lira and kurus
FormatAmount(amount) == [lira |-> amount * 10000, kurus |-> 0]

\* calculate_monthly_tax_summary(tenant_id, year, month, personnel_work_data)
\* on an instance whose _tax_params is cache; venture_capital_warning None
\* is <<>>
calculate_monthly_tax_summary(cache, settings, invoice_rows, user_rows, tenant_id, year, month, personnel_work_data) ==
    LET Summary(corporate, personnel) ==
            LET corporate_tax == corporate.result
                total_tax_advantage ==
                    corporate_tax.corporate_tax_exemption + corporate_tax.vat_exemption
                    + personnel.total_incentive
                venture_capital_warning ==
                    IF corporate_tax.is_venture_capital_required
                    THEN <<[law |-> "5746/4691",
                            amount |->
                                FormatAmount(corporate_tax.venture_capital_obligation)]>>
                    ELSE <<>>
            IN  IF personnel.error # ""
                THEN [error |-> personnel.error, result |-> <<>>,
                      cache |-> personnel.cache]
                ELSE [error |-> "",
                      result |->
                          <<[year |-> year, month |-> month,
                             corporate_tax |-> corporate_tax,
                             personnel_incentives |-> personnel.results,
                             total_personnel_incentive |-> personnel.total_incentive,
                             total_tax_advantage |-> total_tax_advantage,
                             venture_capital_warning |-> venture_capital_warning]>>,
                      cache |-> personnel.cache]
        Personnel(corporate) ==
            Bind(LAMBDA personnel : Summary(corporate, personnel),
                 calculate_personnel_incentives(corporate.cache, settings, user_rows,
                     tenant_id, year, month, personnel_work_data))
    IN  Bind(Personnel,
             calculate_corporate_tax_exemption(cache, settings, invoice_rows,
                                               tenant_id, year, month))

YearlyMonthsShort == 1..11

\* range(1, 13)
YearlyMonths == 1..12

ZeroYearlyTotals ==
    [total_exempt_income |-> 0, total_rd_expense |-> 0,
     total_corporate_tax_exemption |-> 0, total_vat_exemption |-> 0,
     total_personnel_incentive |-> 0, total_venture_capital_obligation |-> 0]

RECURSIVE YearlyLoop(_, _, _, _, _, _, _, _)
\* for month in range(1, 13): the totals and _tax_params afterwards
YearlyLoop(cache, settings, invoice_rows, user_rows, tenant_id, year, month, totals) ==
    LET Add(done) ==
            LET result == done.result[1]
            IN  [total_exempt_income |->
                     totals.total_exempt_income
                     + result.corporate_tax.total_exempt_income,
                 total_rd_expense |->
                     totals.total_rd_expense + result.corporate_tax.total_rd_expense,
                 total_corporate_tax_exemption |->
                     totals.total_corporate_tax_exemption
                     + result.corporate_tax.corporate_tax_exemption,
                 total_vat_exemption |->
                     totals.total_vat_exemption + result.corporate_tax.vat_exemption,
                 total_personnel_incentive |->
                     totals.total_personnel_incentive
                     + result.total_personnel_incentive,
                 total_venture_capital_obligation |->
                     totals.total_venture_capital_obligation
                     + result.corporate_tax.venture_capital_obligation]
        Round(done) ==
            Bind(LAMBDA added : YearlyLoop(done.cache, settings, invoice_rows,
                                           user_rows, tenant_id, year, month + 1, added),
                 Add(done))
    IN  IF month \notin YearlyMonths
        THEN [totals |-> totals, cache |-> cache]
        ELSE Bind(Round,
                  calculate_monthly_tax_summary(cache, settings, invoice_rows,
                      user_rows, tenant_id, year, month, <<>>))

\* calculate_yearly_summary(tenant_id, year) on an instance whose _tax_params
\* is cache
calculate_yearly_summary(cache, settings, invoice_rows, user_rows, tenant_id, year) ==
    LET Summary(done) ==
            LET totals == done.totals
            IN  [result |->
                    [year |-> year,
                     total_exempt_income |-> totals.total_exempt_income,
                     total_rd_expense |-> totals.total_rd_expense,
                     total_corporate_tax_exemption |->
                         totals.total_corporate_tax_exemption,
                     total_vat_exemption |-> totals.total_vat_exemption,
                     total_personnel_incentive |-> totals.total_personnel_incentive,
                     total_venture_capital_obligation |->
                         totals.total_venture_capital_obligation,
                     total_tax_advantage |->
                         totals.total_corporate_tax_exemption
                         + totals.total_vat_exemption
                         + totals.total_personnel_incentive],
                 cache |-> done.cache]
    IN  Bind(Summary, YearlyLoop(cache, settings, invoice_rows, user_rows, tenant_id,
                                 year, 1, ZeroYearlyTotals))

(***************************************************************************)
(* SpecSummary: the incentive and summary calculations over the stored     *)
(* users, invoices and parameter tables, each call on a new TaxService as  *)
(* the endpoints make it.  The payroll tables hold rows of earlier runs.   *)
(***************************************************************************)
\* users tables: a user without salary and one with salary 0 next to paid
\* ones, an inactive user, a user of another tenant
StoredUserTables ==
    {<<>>,
     <<TaxUserRow(1, TRUE, 10, "Doktora", TRUE, TRUE),
       TaxUserRow(1, TRUE, None, "Lisans", FALSE, FALSE),
       TaxUserRow(2, TRUE, 30, "", FALSE, FALSE)>>,
     <<TaxUserRow(1, TRUE, 0, "Yuksek Lisans", FALSE, TRUE),
       TaxUserRow(1, TRUE, 20, "Yuksek Lisans", FALSE, FALSE),
       TaxUserRow(1, FALSE, 30, "Lisans", FALSE, FALSE)>>}

\* personnel_work_data of the calls: None, and lists with and without a
\* month of no worked days
WorkDataInputs ==
    {<<>>,
     <<[user_id |-> 1, days_worked |-> 20, remote_days |-> 10]>>,
     <<[user_id |-> 1, days_worked |-> 0, remote_days |-> 0]>>,
     <<[user_id |-> 2, days_worked |-> 0, remote_days |-> 5]>>,
     <<[user_id |-> 2, days_worked |-> 10, remote_days |-> 10],
       [user_id |-> 3, days_worked |-> 22, remote_days |-> 11]>>}

\* personnel_work_data of the monthly summaries: None and the lists for the
\* first user
SummaryWorkDataInputs ==
    {w \in WorkDataInputs : \A k \in DOMAIN w : w[k].user_id = 1}

\* parameter tables stored by earlier PATCH requests, one of them with a
\* venture_capital_max_amount below its venture_capital_limit
SummaryTaxSettings ==
    StoredTaxSettings
    \cup {2026 :> [DefaultTaxParameters(2026) EXCEPT !.venture_capital_limit = 300,
                                                     !.venture_capital_max_amount = 200]}

\* the calls of one behaviour
MaxSummaryCalls == 1

\* the calls made so far
SummaryCalls == IF summary_call = <<>> THEN 0 ELSE summary_call[1].calls

\* get_tax_parameters only reads: the settings after it has answered for a
\* year, stored or not
SystemSettingsAfterGetSeeding(settings, year) ==
    IF year \in DOMAIN settings
    THEN settings
    ELSE [y \in DOMAIN settings \cup {year} |->
             IF y = year THEN DefaultTaxParameters(year) ELSE settings[y]]

SystemSettingsAfterGet(settings, year) == settings

InitSummary ==
    /\ users \in StoredUserTables
    /\ summary_call = <<>>
    /\ invoices \in StoredInvoiceTables
    /\ corp_result = <<>>
    /\ tax_settings \in SummaryTaxSettings
    /\ tax_params = <<>>
    /\ params_call = <<>>
    /\ employees = <<EmployeeRow(1, "RD_PERSONNEL", TRUE, "PHD", "BASIC_SCIENCES", 10000000)>>
    /\ periods = <<[tenant_id |-> 1, year |-> 2026, month |-> 1, is_locked |-> FALSE]>>
    /\ entries = <<NewEntry(1, 1, 1)>>
    /\ bracket_setting = <<>>
    /\ req = <<>>
    /\ processed = {}
    /\ RatioUnused /\ VcUnused /\ TaxUnused /\ RatesUnused /\ ConcUnused

SummaryFrame ==
    UNCHANGED <<users, invoices, corp_result, params_call, payroll_vars, ratio_vars,
                vc_vars, tax_vars, rates_vars, conc_vars>>

CalculatePersonnelIncentives ==
    /\ SummaryCalls < MaxSummaryCalls
    /\ \E tenant_id \in CallerTenants, year \in Years, month \in Months, personnel_work_data \in WorkDataInputs :
           \E done \in {calculate_personnel_incentives(<<>>, tax_settings, users, tenant_id, year, month, personnel_work_data)} :
               /\ summary_call' =
                      <<[op |-> "incentives", calls |-> SummaryCalls + 1,
                         tenant_id |-> tenant_id, year |-> year,
                         month |-> month, work_data |-> personnel_work_data,
                         error |-> done.error,
                         result |-> <<[results |-> done.results,
                                       total_incentive |-> done.total_incentive]>>]>>
               /\ tax_params' = done.cache
               /\ tax_settings' = SystemSettingsAfterGet(tax_settings, year)
               /\ SummaryFrame

CalculateMonthlyTaxSummary ==
    /\ SummaryCalls < MaxSummaryCalls
    /\ \E tenant_id \in CallerTenants, year \in Years, month \in InvoiceMonths, personnel_work_data \in SummaryWorkDataInputs :
           \E done \in {calculate_monthly_tax_summary(<<>>, tax_settings, invoices, users, tenant_id, year, month, personnel_work_data)} :
               /\ summary_call' =
                      <<[op |-> "monthly", calls |-> SummaryCalls + 1,
                         tenant_id |-> tenant_id, year |-> year,
                         month |-> month, work_data |-> personnel_work_data,
                         error |-> done.error, result |-> done.result]>>
               /\ tax_params' = done.cache
               /\ tax_settings' = SystemSettingsAfterGet(tax_settings, year)
               /\ SummaryFrame

CalculateYearlySummary ==
    /\ SummaryCalls < MaxSummaryCalls
    /\ \E tenant_id \in CallerTenants, year \in Years :
           \E done \in {calculate_yearly_summary(<<>>, tax_settings, invoices, users, tenant_id, year)} :
               /\ summary_call' =
                      <<[op |-> "yearly", calls |-> SummaryCalls + 1,
                         tenant_id |-> tenant_id, year |-> year,
                         month |-> 0, work_data |-> <<>>,
                         error |-> "", result |-> <<done.result>>]>>
               /\ tax_params' = done.cache
               /\ tax_settings' = SystemSettingsAfterGet(tax_settings, year)
               /\ SummaryFrame

NextSummary ==
    CalculatePersonnelIncentives \/ CalculateMonthlyTaxSummary \/ CalculateYearlySummary

SpecSummary == InitSummary /\ [][NextSummary]_vars

\* the users the query of the last call returns
CallUsers ==
    {i \in DOMAIN users :
        /\ users[i].is_active
        /\ summary_call[1].tenant_id # None
              => users[i].tenant_id = summary_call[1].tenant_id}

NoGrossSalary(i) == users[i].daily_gross_salary \in {None, 0}

\* the users table with the users without salary taken off the roster
PaidUsers ==
    [i \in DOMAIN users |->
        IF NoGrossSalary(i) THEN [users[i] EXCEPT !.is_active = FALSE] ELSE users[i]]

\* C22: in the personnel incentive calculation an employee with no gross
\* salary or a gross salary of 0 gets no incentive record and adds nothing
\* to the total, and the employee's presence does not change how the
\* calculation ends for the others: the outcome is the outcome over the
\* roster without the employee
C22_NoSalaryIsSkipped ==
    (summary_call # <<>> /\ summary_call[1].op = "incentives")
        => LET call == summary_call[1]
               others == calculate_personnel_incentives(<<>>, tax_settings, PaidUsers,
                             call.tenant_id, call.year, call.month, call.work_data)
           IN  /\ \A k \in DOMAIN call.result[1].results :
                      ~NoGrossSalary(call.result[1].results[k].user_id)
               /\ call.error = others.error
               /\ call.result[1].results = others.results
               /\ call.result[1].total_incentive = others.total_incentive

\* a call over a roster with a user without salary and a paid user, that
\* ended with a record for the paid one
C22_Witness ==
    /\ summary_call # <<>>
    /\ summary_call[1].op = "incentives"
    /\ summary_call[1].error = ""
    /\ \E i \in CallUsers : NoGrossSalary(i)
    /\ summary_call[1].result[1].results # <<>>
    /\ summary_call[1].result[1].total_incentive > 0

\* the work data the last call's loop takes for a user
CallWorkData(i) ==
    WorkDataMap(summary_call[1].work_data, Len(summary_call[1].work_data), i)

\* the users of the last call with a positive salary and no worked days
ZeroDayUsers ==
    {i \in CallUsers : ~NoGrossSalary(i) /\ CallWorkData(i).days_worked = 0}

\* C23: for an employee with a positive salary and days_worked = 0 the
\* personnel incentive calculation completes without a division by zero
\* and, the remote fraction taken as 0, gives the employee a record with no
\* income tax exemption
C23_ZeroDaysCompletes ==
    (summary_call # <<>> /\ summary_call[1].op = "incentives" /\ ZeroDayUsers # {})
        => /\ summary_call[1].error = ""
           /\ \A i \in ZeroDayUsers :
                  \E k \in DOMAIN summary_call[1].result[1].results :
                      /\ summary_call[1].result[1].results[k].user_id = i
                      /\ summary_call[1].result[1].results[k]
                             .calculated_income_tax_exemption = 0

\* C24: the monthly summary carries a venture capital warning exactly when
\* the month's venture capital obligation is not 0, and the warning names
\* that obligation
C24_WarningIffObligation ==
    (summary_call # <<>> /\ summary_call[1].op = "monthly" /\ summary_call[1].error = "")
        => LET result == summary_call[1].result[1]
               obligation == result.corporate_tax.venture_capital_obligation
           IN  /\ (result.venture_capital_warning # <<>>) <=> (obligation # 0)
               /\ result.venture_capital_warning # <<>>
                     => result.venture_capital_warning[1].amount
                            = [lira |-> obligation * 10000, kurus |-> 0]

\* monthly_summary(tenant, year, month) of the last call's data, by a
\* service of its own
MonthlySummary(month) ==
    calculate_monthly_tax_summary(<<>>, tax_settings, invoices, users,
        summary_call[1].tenant_id, summary_call[1].year, month, <<>>).result[1]

RECURSIVE SumOverMonths(_, _)
\* the sum of F(month) over the months 1..month
SumOverMonths(F(_), month) ==
    IF month = 0 THEN 0 ELSE F(month) + SumOverMonths(F, month - 1)

\* C25: every field of the yearly summary of a tenant and year (exempt
\* income, R&D expense, corporate tax exemption, VAT exemption, personnel
\* incentive, venture capital obligation, total tax advantage) is the sum
\* over the months 1..12 of that field of the monthly summary
C25_YearlyIsSumOfMonths ==
    (summary_call # <<>> /\ summary_call[1].op = "yearly")
        => LET yearly == summary_call[1].result[1]
               ExemptIncome(m) == MonthlySummary(m).corporate_tax.total_exempt_income
               RdExpense(m) == MonthlySummary(m).corporate_tax.total_rd_expense
               CorporateExemption(m) ==
                   MonthlySummary(m).corporate_tax.corporate_tax_exemption
               VatExemption(m) == MonthlySummary(m).corporate_tax.vat_exemption
               PersonnelIncentive(m) == MonthlySummary(m).total_personnel_incentive
               Obligation(m) == MonthlySummary(m).corporate_tax.venture_capital_obligation
               TaxAdvantage(m) == MonthlySummary(m).total_tax_advantage
           IN  /\ yearly.total_exempt_income = SumOverMonths(ExemptIncome, 12)
               /\ yearly.total_rd_expense = SumOverMonths(RdExpense, 12)
               /\ yearly.total_corporate_tax_exemption
                      = SumOverMonths(CorporateExemption, 12)
               /\ yearly.total_vat_exemption = SumOverMonths(VatExemption, 12)
               /\ yearly.total_personnel_incentive
                      = SumOverMonths(PersonnelIncentive, 12)
               /\ yearly.total_venture_capital_obligation
                      = SumOverMonths(Obligation, 12)
               /\ yearly.total_tax_advantage = SumOverMonths(TaxAdvantage, 12)

\* a yearly summary with exempt income, R&D expense, an obligation and
\* incentives in it
C25_Witness ==
    /\ summary_call # <<>>
    /\ summary_call[1].op = "yearly"
    /\ summary_call[1].result[1].total_exempt_income > 0
    /\ summary_call[1].result[1].total_venture_capital_obligation > 0
    /\ summary_call[1].result[1].total_personnel_incentive > 0
    /\ summary_call[1].result[1].total_tax_advantage
           > summary_call[1].result[1].total_personnel_incentive

\* C26: computing a monthly or a yearly summary changes no persisted
\* record: invoices with their lines and products, users, employees,
\* payroll periods, payroll entries and the stored parameter tables are
\* after the call what they were before it
C26_SummaryChangesNoRecord ==
    [][(summary_call' # <<>> /\ summary_call'[1].op \in {"monthly", "yearly"})
          => UNCHANGED <<invoices, users, employees, periods, entries,
                         bracket_setting, tax_settings>>]_vars

\* a summary was computed for a year that has no stored parameter table,
\* over stored invoices, users and payroll rows
C26_Witness ==
    /\ summary_call # <<>>
    /\ summary_call[1].op \in {"monthly", "yearly"}
    /\ summary_call[1].year \notin DOMAIN tax_settings
    /\ invoices # <<>> /\ users # <<>> /\ entries # <<>>

(***************************************************************************)
(* SpecEntry: PayrollService.calculate_entry for the employees and period  *)
(* inputs of SpecRates, over the bracket tables a system setting can hold. *)
(***************************************************************************)
\* income_tax_brackets_<year> settings: none, a two-bracket table, and a
\* table whose tax exceeds the base
EntryBracketSettings ==
    BracketSettings \cup {[y \in Years |-> << [limit |-> None, rate |-> 150] >>]}

InitEntry ==
    /\ rate_employee \in RateEmployees
    /\ rate_user = UserRow("Lisans", FALSE)
    /\ rate_params = DefaultTaxParameters(2026)
    /\ rate_result = <<>>
    /\ bracket_setting \in EntryBracketSettings
    /\ employees = <<>>
    /\ periods = <<>>
    /\ entries = <<>>
    /\ req = <<>>
    /\ processed = {}
    /\ SummaryUnused /\ ConcUnused /\ RatioUnused /\ VcUnused /\ TaxUnused
    /\ ParamsUnused /\ CorpUnused

NextEntry == CalculateEntry

SpecEntry == InitEntry /\ [][NextEntry]_vars

RemoteWorkRatio(employee) ==
    IF employee.personnel_type = "SOFTWARE_PERSONNEL"
    THEN rate_params.remote_work_rate_informatics
    ELSE rate_params.remote_work_rate_other

\* C28: for an eligible employee with worked days > 0 the income tax
\* incentive of calculate_entry is the full-rate incentive times (on-site
\* days + remote days * remote_work_ratio) / worked days: on-site days get
\* the full exemption rate, remote days the rate times remote_work_ratio
C28_IncentiveFollowsRemoteSplit ==
    (/\ rate_result # <<>>
     /\ rate_result[1].op = "calculate_entry"
     /\ rate_employee.personnel_type \in {"RD_PERSONNEL", "SOFTWARE_PERSONNEL"}
     /\ rate_result[1].input.worked_days > 0)
        => LET entry == rate_result[1].value
               input == rate_result[1].input
               full == Pct(calculate_progressive_tax(entry.income_tax_base,
                                                     rate_result[1].brackets),
                           get_exemption_rates(rate_employee).income_tax)
               on_site_days == input.worked_days - input.remote_days
           IN  entry.income_tax_exemption_amount =
                   Frac(full,
                        on_site_days * 100
                        + input.remote_days * RemoteWorkRatio(rate_employee),
                        input.worked_days * 100)

\* the exemption bases the obligation is computed for
ExemptionBases == VcAmounts \cup {20000}

\* C29: for every parameter table stored through accepted
\* update_tax_parameters requests, starting from the defaults, and every
\* exemption base the venture capital obligation is >= 0
C29_ObligationNonNegative ==
    \A year \in DOMAIN tax_settings, exemption_base \in ExemptionBases :
        check_venture_capital_obligation(exemption_base, tax_settings[year]) >= 0

\* the period and the employee an entry row refers to are of the tenant
OfTenant(row, tenant_id) ==
    /\ row.payroll_period_id \in DOMAIN periods
    /\ periods[row.payroll_period_id].tenant_id = tenant_id
    /\ row.employee_id \in DOMAIN employees
    /\ employees[row.employee_id].tenant_id = tenant_id

\* the entries rows a step inserts or changes
Written(before, after) ==
    {i \in DOMAIN after : i \notin DOMAIN before \/ after[i] # before[i]}

\* C30: every payroll entry a process call of a caller of tenant t writes,
\* into its session and at commit into the table, refers to a period of
\* tenant t and an employee of tenant t; a call that names a period or an
\* employee of another tenant is rejected and writes no entry
C30_EntriesStayInTenant ==
    /\ [](\A r \in DOMAIN req :
             req[r].tenant_id # None
                => \A k \in DOMAIN req[r].pending :
                       OfTenant(req[r].pending[k].row, req[r].tenant_id))
    /\ [][\A r \in DOMAIN req :
             /\ (req[r].tenant_id # None /\ req[r].pc = "loop" /\ req'[r].pc = "done")
                   => \A i \in Written(entries, entries') :
                          OfTenant(entries'[i], req[r].tenant_id)
             /\ (req[r].pc = "rejected" \/ req'[r].pc = "rejected")
                   => entries' = entries
             /\ (/\ req[r].pc = "idle"
                 /\ req'[r].pc # "idle"
                 /\ req'[r].tenant_id # None
                 /\ req'[r].period_id \in DOMAIN periods
                 /\ periods[req'[r].period_id].tenant_id # req'[r].tenant_id)
                   => req'[r].pc = "rejected"]_vars

\* a caller of a tenant had an entry in its session when it named an
\* employee of another tenant: the call is rejected, with entries of an
\* earlier call in the table
C30_Witness ==
    /\ req # <<>>
    /\ req[1].pc = "rejected"
    /\ req[1].error = "403 employee"
    /\ req[1].tenant_id # None
    /\ req[1].pending # <<>>
    /\ entries # <<>>

====
